---- MODULE Spec2Model ----
(***************************************************************************)
(* Authentication and session-lifecycle engine of joy-kunga.stream:        *)
(* the rate limiter (services/auth/src/rate_limiter.rs), the token service *)
(* (services/auth/src/jwt.rs), the auth endpoints                          *)
(* (services/auth/src/routes.rs) and the bearer middlewares of the auth    *)
(* and the API service, over the key/value store client                    *)
(* (libs/common/src/cache.rs).                                             *)
(***************************************************************************)
EXTENDS Integers, Sequences, FiniteSets, TLC

VARIABLES
    now,        \* the clock, whole seconds
    entries,    \* RateLimiter.entries: key -> RateLimiterEntry
    last_call,  \* per key: the last is_allowed call (time, entry before, result)
    monitor,    \* per key: where the key stands in the scenario "5 calls, a 6th, a ban"
    store,      \* the key/value store: namespace -> id -> [value, expires_at]
    issued,     \* every token the service has signed, with what it was signed for
    call,       \* the direct call of a JwtService operation just answered, and its result
    bl_until,   \* per token: the end of its last successful blacklisting, while it lasts
    lapsed,     \* the tokens a blacklisting of which has run out
    rotated,    \* token -> how many rotate_refresh_token calls have succeeded on it
    pc,         \* per client connection: the request in flight or just answered
    config,     \* JwtService.config: the two lifetimes, as 64-bit numbers
    ended,      \* the refresh tokens signed for a user before a logout of that user answered OK
    lg,         \* the login with a username and a password in progress or just answered
    poller,     \* S3Poller::process_objects: the call in progress or just returned
    known,      \* the tokens the endpoints have handed out in responses
    revoked,    \* the tokens a logout or a rotation has blacklisted
    logged_out, \* the tokens a logout has been answered OK for
    mutex,      \* RateLimiter.entries' Mutex: the is_allowed call holding it, if any
    calls,      \* per task calling is_allowed: where its call stands, its key, its now
    tally,      \* per key: how many calls have returned true (yes), false (no)
    cb,         \* per client connection: the OAuth callback in flight or just answered
    handshakes, \* csrf token -> the callbacks that took its handshake, and their answers
    accounts,   \* the rows of the users table
    rg,         \* per client connection: the registration in flight or just answered
    text,       \* the password a client is typing
    verdict,    \* what validate_password answered for text, once asked
    expect,     \* per store key: the value last set and its deadline, None once deleted
    lineage     \* the pairs <<old, new>> of refresh tokens the rotations have produced

\* Option<T>: None is the empty sequence, Some(v) the one-element sequence.
None == <<>>
Some(v) == <<v>>
IsSome(o) == o # None
Unwrap(o) == o[1]

\* HashMap insert / overwrite.
Put(f, k, v) == [x \in (DOMAIN f) \cup {k} |-> IF x = k THEN v ELSE f[x]]

\* Result<T>
Ok(v) == [ok |-> TRUE, val |-> v]
Err(e) == [ok |-> FALSE, err |-> e]

(***************************************************************************)
(* Rate limiter                                                            *)
(***************************************************************************)

\* RateLimiterConfig::default()
max_attempts == 5
window_seconds == 300
ban_duration_seconds == 3600

Keys == {"k1"}

\* The instants at which the rate limiter is observed: within Slack seconds of
\* 0, of the window, of the ban duration and of their sum.
Slack == 1
RLInstants ==
    {t \in 0..(ban_duration_seconds + window_seconds + Slack) :
        \E b \in 0..1, w \in 0..1 :
            LET c == b * ban_duration_seconds + w * window_seconds
            IN  t >= c - Slack /\ t <= c + Slack}

\* entries.entry(key).or_insert(RateLimiterEntry { attempts: 0, last_attempt: now, ban_expires: None })
or_insert(es, key, t) ==
    IF key \in DOMAIN es
    THEN es[key]
    ELSE [attempts |-> 0, last_attempt |-> t, ban_expires |-> None]

\* ban_check with a refused call starting the ban over.
ban_check_extend(entry, t) ==
    IF IsSome(entry.ban_expires)
    THEN IF t >= Unwrap(entry.ban_expires)
         THEN [entry |-> [entry EXCEPT !.attempts = 0, !.ban_expires = None],
               banned |-> FALSE]
         ELSE [entry |-> [entry EXCEPT !.ban_expires = Some(t + ban_duration_seconds)],
               banned |-> TRUE]
    ELSE [entry |-> entry, banned |-> FALSE]

\* ban_check with a refused call recorded as the key's last attempt.
ban_check_touch(entry, t) ==
    IF IsSome(entry.ban_expires)
    THEN IF t >= Unwrap(entry.ban_expires)
         THEN [entry |-> [entry EXCEPT !.attempts = 0, !.ban_expires = None],
               banned |-> FALSE]
         ELSE [entry |-> [entry EXCEPT !.last_attempt = t], banned |-> TRUE]
    ELSE [entry |-> entry, banned |-> FALSE]

\* "Check if ban has expired": an expired ban is cleared and the count reset;
\* a live ban ends the call with false, the entry untouched.
ban_check(entry, t) ==
    IF IsSome(entry.ban_expires)
    THEN IF t >= Unwrap(entry.ban_expires)
         THEN [entry |-> [entry EXCEPT !.attempts = 0, !.ban_expires = None],
               banned |-> FALSE]
         ELSE [entry |-> entry, banned |-> TRUE]
    ELSE [entry |-> entry, banned |-> FALSE]

\* window_check without the reset.
window_check_no_reset(entry, t) == entry

\* "Check if window has expired"
window_check(entry, t) ==
    IF t - entry.last_attempt >= window_seconds
    THEN [entry EXCEPT !.attempts = 0]
    ELSE entry

\* limit_check with the refused call counted as an attempt.
limit_check_count_refused(entry, t) ==
    IF entry.attempts >= max_attempts
    THEN [entry |-> [entry EXCEPT !.attempts = @ + 1,
                                  !.ban_expires = Some(t + ban_duration_seconds)],
          allowed |-> FALSE]
    ELSE [entry |-> [entry EXCEPT !.attempts = @ + 1,
                                  !.last_attempt = t],
          allowed |-> TRUE]

\* limit_check with > for >=: one attempt too many.
limit_check_off_by_one(entry, t) ==
    IF entry.attempts > max_attempts
    THEN [entry |-> [entry EXCEPT !.ban_expires = Some(t + ban_duration_seconds)],
          allowed |-> FALSE]
    ELSE [entry |-> [entry EXCEPT !.attempts = @ + 1,
                                  !.last_attempt = t],
          allowed |-> TRUE]

\* "Check if we're over the limit", else "Increment attempts". The increment is
\* taken only below max_attempts, far from the u32 range.
limit_check(entry, t) ==
    IF entry.attempts >= max_attempts
    THEN [entry |-> [entry EXCEPT !.ban_expires = Some(t + ban_duration_seconds)],
          allowed |-> FALSE]
    ELSE [entry |-> [entry EXCEPT !.attempts = @ + 1,
                                  !.last_attempt = t],
          allowed |-> TRUE]

\* RateLimiter::is_allowed, the whole body under the table's mutex.
is_allowed(es, key, t) ==
    LET e0 == or_insert(es, key, t)
        b  == ban_check(e0, t)
    IN  IF b.banned
        THEN [entries |-> Put(es, key, b.entry), allowed |-> FALSE]
        ELSE LET l == limit_check(window_check(b.entry, t), t)
             IN  [entries |-> Put(es, key, l.entry), allowed |-> l.allowed]

\* The scenario of a fresh key: calls less than a window apart are counted; the
\* call after max_attempts counted ones is expected to be refused and to start
\* a ban; calls during the ban are expected to be refused, the first call at or
\* after its end to be accepted. "expect" is what the scenario says of the
\* last call, None when it says nothing.
MonitorInit == [phase |-> "counting", n |-> 0, last |-> 0, ban_at |-> 0, expect |-> None]
MonitorStep(m, t) ==
    CASE m.phase = "counting" /\ m.n >= 1 /\ t - m.last >= window_seconds ->
            [m EXCEPT !.phase = "left", !.expect = None]
      [] m.phase = "counting" /\ m.n < max_attempts ->
            [m EXCEPT !.n = @ + 1, !.last = t, !.expect = Some(TRUE)]
      [] m.phase = "counting" ->
            [m EXCEPT !.phase = "banned", !.ban_at = t, !.last = t, !.expect = Some(FALSE)]
      [] m.phase = "banned" /\ t < m.ban_at + ban_duration_seconds ->
            [m EXCEPT !.expect = Some(FALSE)]
      [] m.phase = "banned" ->
            [m EXCEPT !.phase = "over", !.expect = Some(TRUE)]
      [] OTHER -> [m EXCEPT !.expect = None]

(***************************************************************************)
(* Key/value store client                                                  *)
(***************************************************************************)

EmptyStore ==
    [blacklisted_token |-> [x \in {} |-> None], session |-> [x \in {} |-> None],
     oauth_session |-> [x \in {} |-> None]]

\* format!("blacklisted_token:{}", token) and format!("session:{}", user_id)
blacklist_key(token) == [ns |-> "blacklisted_token", id |-> token]
session_key(user_id) == [ns |-> "session", id |-> user_id]

\* An entry is live until its expiry time; one without expiry is live for good.
Live(entry, t) == entry.expires_at = None \/ t < Unwrap(entry.expires_at)

\* RedisPool::set: SETEX when a TTL is given (the server refuses a TTL of 0),
\* SET otherwise. Either overwrites the value and its expiry.
redis_set(st, key, value, ttl_seconds, t) ==
    IF IsSome(ttl_seconds)
    THEN IF Unwrap(ttl_seconds) = 0
         THEN [result |-> Err("invalid expire time"), store |-> st]
         ELSE [result |-> Ok("OK"),
               store |-> [st EXCEPT ![key.ns] = Put(@, key.id,
                    [value |-> value, expires_at |-> Some(t + Unwrap(ttl_seconds))])]]
    ELSE [result |-> Ok("OK"),
          store |-> [st EXCEPT ![key.ns] = Put(@, key.id,
                    [value |-> value, expires_at |-> None])]]

\* RedisPool::get
redis_get(st, key, t) ==
    IF key.id \in DOMAIN st[key.ns] /\ Live(st[key.ns][key.id], t)
    THEN Some(st[key.ns][key.id].value)
    ELSE None

\* RedisPool::delete leaving the key where it is.
redis_delete_keep(st, key) == st

\* RedisPool::delete
redis_delete(st, key) ==
    [st EXCEPT ![key.ns] = [x \in (DOMAIN @) \ {key.id} |-> @[x]]]

\* The server drops the entries whose TTL has run out.
Expire(st, t) ==
    [ns \in DOMAIN st |-> [x \in {y \in DOMAIN st[ns] : Live(st[ns][y], t)} |-> st[ns][x]]]

(***************************************************************************)
(* Token service                                                           *)
(***************************************************************************)

\* JwtConfig: the two lifetimes, in seconds (JWT_ACCESS_TOKEN_EXPIRY,
\* JWT_REFRESH_TOKEN_EXPIRY), here a short-lived configuration.
access_token_expiry == 1
refresh_token_expiry == 2

\* Validation::new(Algorithm::RS256): the clock-skew allowance on exp, seconds.
leeway == 60

\* u64: a 64-bit number as four 16-bit limbs, the most significant first.
Limb == 65536
U64(n) == <<0, 0, n \div Limb, n % Limb>>
u64_MAX == <<Limb - 1, Limb - 1, Limb - 1, Limb - 1>>

\* a < b on u64
u64_lt(a, b) ==
    \E i \in 1..4 : a[i] < b[i] /\ \A j \in 1..(i - 1) : a[j] = b[j]

\* u64::overflowing_add: the sum modulo 2^64, and whether it passed 2^64.
overflowing_add(a, b) ==
    LET c4 == a[4] + b[4]
        c3 == a[3] + b[3] + (c4 \div Limb)
        c2 == a[2] + b[2] + (c3 \div Limb)
        c1 == a[1] + b[1] + (c2 \div Limb)
    IN  [sum |-> <<c1 % Limb, c2 % Limb, c3 % Limb, c4 % Limb>>,
         overflow |-> c1 \div Limb > 0]

\* `now + expiry` on u64: a panic when the build checks overflow (debug
\* profile), the wrapped sum when it does not (release profile).
add(a, b, overflow_checks) ==
    LET r == overflowing_add(a, b)
    IN  IF r.overflow /\ overflow_checks
        THEN Err("attempt to add with overflow")
        ELSE Ok(r.sum)

Users == {"u1", "u2"}

\* Role { name, permissions }, the permission keys in iteration order.
Admin == [name |-> "admin", permissions |-> <<"read", "write">>]
Editor == [name |-> "editor", permissions |-> <<"read">>]
RoleLists == {<< >>, <<Admin, Editor>>}

\* The wall-clock instants at which the service is observed: the first seconds,
\* up to one past the refresh lifetime, and the same seconds one leeway later.
Instants ==
    {t \in 0..(leeway + refresh_token_expiry + 1) :
        t <= refresh_token_expiry + 1 \/ t >= leeway}

RECURSIVE flat_map_keys(_)
\* roles.iter().flat_map(|r| r.permissions.keys().cloned()).collect()
flat_map_keys(roles) ==
    IF roles = << >> THEN << >>
    ELSE Head(roles).permissions \o flat_map_keys(Tail(roles))

\* roles.iter().map(|r| r.name.clone()).collect()
role_names(roles) == [i \in 1..Len(roles) |-> roles[i].name]

\* encode(&Header::new(RS256), &claims, &encoding_key): the claims serialised
\* field by field, signed with the service's private key.
encode(claims) ==
    [alg |-> "RS256",
     payload |-> <<claims.sub, claims.roles, claims.permissions,
                   claims.iat, claims.exp, claims.token_type>>,
     sig |-> "service_key"]

\* A token signed with some other key.
Forged ==
    [alg |-> "RS256",
     payload |-> <<"u1", << >>, << >>, 0, leeway + refresh_token_expiry + 1, "Refresh">>,
     sig |-> "other_key"]

\* decode::<Claims>(token, &decoding_key, &validation): signature, then exp
\* against the clock with the validation's leeway.
decode(token, t) ==
    IF token.alg # "RS256" \/ token.sig # "service_key"
    THEN Err("InvalidSignature")
    ELSE LET p == token.payload
             claims == [sub |-> p[1], roles |-> p[2], permissions |-> p[3],
                        iat |-> p[4], exp |-> p[5], token_type |-> p[6]]
         IN  IF claims.exp < t - leeway
             THEN Err("ExpiredSignature")
             ELSE Ok(claims)

\* JwtService::generate_access_token
generate_access_token(user, roles, t) ==
    encode([sub |-> user,
            roles |-> role_names(roles),
            permissions |-> flat_map_keys(roles),
            iat |-> t,
            exp |-> t + access_token_expiry,
            token_type |-> "Access"])

\* JwtService::generate_refresh_token
generate_refresh_token(user, t) ==
    encode([sub |-> user,
            roles |-> << >>,
            permissions |-> << >>,
            iat |-> t,
            exp |-> t + refresh_token_expiry,
            token_type |-> "Refresh"])

\* JwtService::validate_token
validate_token(token, t) == decode(token, t)

\* JwtService::is_token_blacklisted
is_token_blacklisted(st, token, t) == IsSome(redis_get(st, blacklist_key(token), t))

\* blacklist_token writing the key without its expiry.
blacklist_token_no_ttl(st, token, expiry, t) ==
    redis_set(st, blacklist_key(token), "1", None, t)

\* JwtService::blacklist_token
blacklist_token(st, token, expiry, t) ==
    redis_set(st, blacklist_key(token), "1", Some(expiry), t)

\* claims.exp.saturating_sub(now)
saturating_sub(a, b) == IF a >= b THEN a - b ELSE 0

\* JwtService::rotate_refresh_token up to the blacklist write: the old token is
\* validated, must be a refresh token of this user, and is blacklisted for its
\* remaining lifetime.
rotate_blacklist(st, user, old_refresh_token, t) ==
    LET v == validate_token(old_refresh_token, t)
    IN  IF ~v.ok THEN [result |-> v, store |-> st]
        ELSE IF v.val.token_type # "Refresh"
        THEN [result |-> Err("Token is not a refresh token"), store |-> st]
        ELSE IF v.val.sub # user
        THEN [result |-> Err("Token does not belong to user"), store |-> st]
        ELSE blacklist_token(st, old_refresh_token, saturating_sub(v.val.exp, t), t)

\* rotate_refresh_token going on to the new token when the blacklist write
\* has failed.
rotate_refresh_token_open(st, user, old_refresh_token, t) ==
    LET b == rotate_blacklist(st, user, old_refresh_token, t)
    IN  IF ~validate_token(old_refresh_token, t).ok THEN b
        ELSE [result |-> Ok(generate_refresh_token(user, t)), store |-> b.store]

\* JwtService::rotate_refresh_token
rotate_refresh_token(st, user, old_refresh_token, t) ==
    LET b == rotate_blacklist(st, user, old_refresh_token, t)
    IN  IF ~b.result.ok THEN b
        ELSE [result |-> Ok(generate_refresh_token(user, t)), store |-> b.store]

(***************************************************************************)
(* State                                                                   *)
(***************************************************************************)

\* The tasks calling is_allowed at once, and the calls they make in all.
MaxCallers == 3
MaxCalls == 6
Callers == 1..MaxCallers

\* A task that has not called is_allowed.
NoCall == [stage |-> "idle", key |-> "", t |-> 0]

\* The client keys the tasks call is_allowed for.
ConcKeys == {"k1", "k2"}

\* The client connections served at once.
Procs == {"p1", "p2"}

\* A connection with no registration on it.
NoRegistration ==
    [stage |-> "idle", payload |-> None, status |-> "", taken |-> FALSE,
     created |-> FALSE]

\* No login with a username and a password yet.
NoLogin ==
    [stage |-> "idle", payload |-> None, status |-> "", found |-> None,
     minted |-> << >>]

\* No process_objects call yet.
NoPoll ==
    [stage |-> "idle", objects |-> << >>, i |-> 0, retry_count |-> 0,
     success |-> FALSE, attempts |-> << >>, done_at |-> << >>, slept |-> 0,
     result |-> None]

\* A connection with no OAuth callback on it.
NoCallback ==
    [stage |-> "idle", state |-> None, session |-> None, status |-> "",
     replay |-> FALSE, user |-> None, minted |-> << >>, dead |-> "",
     complete |-> FALSE, fault |-> "", profile |-> None, linked |-> FALSE]

\* A connection with no request on it.
Idle ==
    [stage |-> "idle", op |-> "", token |-> None, status |-> "",
     was_revoked |-> FALSE, overlaps |-> {}, minted |-> << >>, fault |-> ""]

rl_vars == <<entries, last_call, monitor>>
jwt_vars == <<store, issued, call, bl_until, lapsed, rotated>>
ep_vars == <<pc, known, revoked, logged_out>>
conc_vars == <<mutex, calls, tally>>
oauth_vars == <<cb, handshakes>>
acct_vars == <<accounts, rg, text, verdict>>
aux_vars == <<expect, lineage, ended>>
cfg_vars == <<config>>
media_vars == <<poller>>
login_vars == <<lg>>
vars == <<now, rl_vars, jwt_vars, ep_vars, conc_vars, oauth_vars, acct_vars, aux_vars,
          cfg_vars, media_vars, login_vars>>

\* RateLimiter::new, a store with no keys, no token signed yet.
Init ==
    /\ now = 0
    /\ entries = [k \in {} |-> None]
    /\ last_call = [k \in Keys |-> None]
    /\ monitor = [k \in Keys |-> MonitorInit]
    /\ store = EmptyStore
    /\ issued = {}
    /\ call = None
    /\ bl_until = [x \in {} |-> None]
    /\ lapsed = {}
    /\ rotated = << >>
    /\ pc = [p \in Procs |-> Idle]
    /\ known = {}
    /\ revoked = {}
    /\ logged_out = {}
    /\ mutex = None
    /\ calls = [c \in Callers |-> NoCall]
    /\ tally = [k \in ConcKeys |-> [yes |-> 0, no |-> 0]]
    /\ cb = [p \in Procs |-> NoCallback]
    /\ handshakes = << >>
    /\ accounts = {}
    /\ rg = [p \in Procs |-> NoRegistration]
    /\ text = << >>
    /\ verdict = None
    /\ expect = [k \in {} |-> None]
    /\ lineage = {}
    /\ config = [access_token_expiry |-> U64(access_token_expiry),
                 refresh_token_expiry |-> U64(refresh_token_expiry)]
    /\ poller = NoPoll
    /\ ended = {}
    /\ lg = NoLogin

(***************************************************************************)
(* The token service on its own: its operations called one at a time       *)
(***************************************************************************)

\* How many tokens the generate calls sign, and the TTLs tried.
MaxIssued == 2
MaxRevIssued == 1
MaxTtl == 2

Signed(token, kind, user, roles) ==
    [token |-> token, kind |-> kind, user |-> user, roles |-> roles, at |-> now]
Presentable == {i.token : i \in issued} \cup {Forged}
Called(op, token, user, result) ==
    Some([op |-> op, token |-> token, user |-> user, at |-> now, result |-> result,
          again |-> token \in DOMAIN rotated])

JwtGenerateAccess(user, roles) ==
    LET token == generate_access_token(user, roles, now)
    IN  /\ Cardinality(issued) < MaxIssued
        /\ issued' = issued \cup {Signed(token, "Access", user, roles)}
        /\ call' = Called("generate_access_token", token, user, Ok(token))
        /\ UNCHANGED <<now, rl_vars, ep_vars, store, bl_until, lapsed, rotated, conc_vars, oauth_vars, acct_vars, aux_vars, cfg_vars, media_vars, login_vars>>

JwtGenerateRefresh(user) ==
    LET token == generate_refresh_token(user, now)
    IN  /\ Cardinality(issued) < MaxIssued
        /\ issued' = issued \cup {Signed(token, "Refresh", user, << >>)}
        /\ call' = Called("generate_refresh_token", token, user, Ok(token))
        /\ UNCHANGED <<now, rl_vars, ep_vars, store, bl_until, lapsed, rotated, conc_vars, oauth_vars, acct_vars, aux_vars, cfg_vars, media_vars, login_vars>>

JwtValidate(token) ==
    /\ call' = Called("validate_token", token, None, validate_token(token, now))
    /\ UNCHANGED <<now, rl_vars, ep_vars, store, issued, bl_until, lapsed, rotated, conc_vars, oauth_vars, acct_vars, aux_vars, cfg_vars, media_vars, login_vars>>

\* SystemTime::now() moves on; the store drops what has expired.
JwtTick ==
    /\ \E t \in Instants : t > now /\ now' = t
    /\ call' = None
    /\ UNCHANGED <<rl_vars, ep_vars, store, issued, bl_until, lapsed, rotated, conc_vars, oauth_vars, acct_vars, aux_vars, cfg_vars, media_vars, login_vars>>

JwtNext ==
    \/ \E user \in Users, roles \in RoleLists : JwtGenerateAccess(user, roles)
    \/ \E user \in Users : JwtGenerateRefresh(user)
    \/ \E token \in Presentable : JwtValidate(token)
    \/ JwtTick

SpecJwt == Init /\ [][JwtNext]_vars

\* C6: validate_token on the token generate_access_token returned for a user
\* and a role list returns claims with that user as sub, the roles' names, the
\* roles' permissions and token_type Access, and it succeeds exactly when
\* now < exp, where exp is the time of issue plus the access lifetime.
C6_AccessRoundTrip ==
    (IsSome(call) /\ Unwrap(call).op = "validate_token") =>
        \A i \in issued :
            (i.token = Unwrap(call).token /\ i.kind = "Access") =>
                LET c == Unwrap(call)
                IN  /\ c.result.ok <=> c.at < i.at + access_token_expiry
                    /\ c.result.ok =>
                            /\ c.result.val.sub = i.user
                            /\ c.result.val.roles = [j \in 1..Len(i.roles) |-> i.roles[j].name]
                            /\ {c.result.val.permissions[j] :
                                    j \in 1..Len(c.result.val.permissions)}
                                 = UNION {{i.roles[j].permissions[k] :
                                            k \in 1..Len(i.roles[j].permissions)} :
                                          j \in 1..Len(i.roles)}
                            /\ c.result.val.token_type = "Access"

(***************************************************************************)
(* Revocation on its own: blacklist_token, is_token_blacklisted and        *)
(* rotate_refresh_token called one at a time                               *)
(***************************************************************************)

IssuedTokens == {i.token : i \in issued}

RevGenerateRefresh(user) ==
    LET token == generate_refresh_token(user, now)
    IN  /\ Cardinality(issued) < MaxRevIssued
        /\ issued' = issued \cup {Signed(token, "Refresh", user, << >>)}
        /\ call' = Called("generate_refresh_token", token, user, Ok(token))
        /\ UNCHANGED <<now, rl_vars, ep_vars, store, bl_until, lapsed, rotated, conc_vars, oauth_vars, acct_vars, aux_vars, cfg_vars, media_vars, login_vars>>

RevIsBlacklisted(token) ==
    /\ call' = Called("is_token_blacklisted", token, None, Ok(is_token_blacklisted(store, token, now)))
    /\ UNCHANGED <<now, rl_vars, ep_vars, store, issued, bl_until, lapsed, rotated, conc_vars, oauth_vars, acct_vars, aux_vars, cfg_vars, media_vars, login_vars>>

RevBlacklist(token, ttl) ==
    LET r == blacklist_token(store, token, ttl, now)
    IN  /\ store' = r.store
        /\ call' = Called("blacklist_token", token, None, r.result)
        /\ bl_until' = IF r.result.ok THEN Put(bl_until, token, now + ttl) ELSE bl_until
        /\ UNCHANGED <<now, rl_vars, ep_vars, issued, lapsed, rotated, conc_vars, oauth_vars, acct_vars, aux_vars, cfg_vars, media_vars, login_vars>>

RevRotate(token, user) ==
    LET r == rotate_refresh_token(store, user, token, now)
    IN  /\ r.result.ok =>
                \/ r.result.val \in IssuedTokens
                \/ Cardinality(issued) < MaxRevIssued + 1
        /\ store' = r.store
        /\ call' = Called("rotate_refresh_token", token, user, r.result)
        /\ issued' = IF r.result.ok
                     THEN issued \cup {Signed(r.result.val, "Refresh", user, << >>)}
                     ELSE issued
        /\ rotated' = IF r.result.ok
                      THEN Put(rotated, token,
                               IF token \in DOMAIN rotated THEN 2 ELSE 1)
                      ELSE rotated
        /\ bl_until' = IF r.result.ok
                       THEN Put(bl_until, token,
                                Unwrap(r.store.blacklisted_token[token].expires_at))
                       ELSE bl_until
        /\ UNCHANGED <<now, rl_vars, ep_vars, lapsed, conc_vars, oauth_vars, acct_vars, aux_vars, cfg_vars, media_vars, login_vars>>

\* SystemTime::now() moves on; the store drops what has expired.
RevTick ==
    /\ \E t \in Instants : t > now /\ now' = t
    /\ store' = Expire(store, now')
    /\ call' = None
    /\ bl_until' = [x \in {y \in DOMAIN bl_until : bl_until[y] > now'} |-> bl_until[x]]
    /\ lapsed' = lapsed \cup {y \in DOMAIN bl_until : bl_until[y] <= now'}
    /\ UNCHANGED <<rl_vars, ep_vars, issued, rotated, conc_vars, oauth_vars, acct_vars, aux_vars, cfg_vars, media_vars, login_vars>>

\* blacklist_token and is_token_blacklisted.
RevNext ==
    \/ \E user \in Users : RevGenerateRefresh(user)
    \/ \E token \in IssuedTokens : RevIsBlacklisted(token)
    \/ \E token \in IssuedTokens, ttl \in 0..MaxTtl : RevBlacklist(token, ttl)
    \/ RevTick

SpecRevoke == Init /\ [][RevNext]_vars

\* C7: after blacklist_token(T, ttl) has succeeded, is_token_blacklisted(T)
\* returns true at every time before ttl seconds have passed and false from
\* then on, unless T has been blacklisted again; it returns false for a token
\* never blacklisted.
C7_BlacklistUntilTtl ==
    (IsSome(call) /\ Unwrap(call).op = "is_token_blacklisted") =>
        LET c == Unwrap(call)
        IN  c.result.val = (c.token \in DOMAIN bl_until /\ c.at < bl_until[c.token])

\* A blacklisting has run out and is_token_blacklisted has answered false since.
C7_Witness ==
    /\ IsSome(call)
    /\ Unwrap(call).op = "is_token_blacklisted"
    /\ Unwrap(call).token \in lapsed
    /\ Unwrap(call).token \notin DOMAIN bl_until
    /\ Unwrap(call).result.val = FALSE

\* rotate_refresh_token, and is_token_blacklisted on what it blacklisted.
RotNext ==
    \/ \E user \in Users : RevGenerateRefresh(user)
    \/ \E token \in IssuedTokens : RevIsBlacklisted(token)
    \/ \E token \in Presentable, user \in Users : RevRotate(token, user)
    \/ RevTick

SpecRotate == Init /\ [][RotNext]_vars

\* C2: rotation is single-use. The first rotate_refresh_token(T, user) on an
\* unexpired refresh token T of the user succeeds and returns a refresh token;
\* every rotate_refresh_token(T, user) after a successful one fails.
C2_RotationSingleUse ==
    (IsSome(call) /\ Unwrap(call).op = "rotate_refresh_token") =>
        LET c == Unwrap(call)
        IN  /\ c.again => ~c.result.ok
            /\ (/\ ~c.again
                /\ \E i \in issued :
                        /\ i.token = c.token
                        /\ i.kind = "Refresh"
                        /\ i.user = c.user
                        /\ c.at < i.at + refresh_token_expiry)
                    => (c.result.ok /\ c.result.val.payload[6] = "Refresh")


(***************************************************************************)
(* The rate limiter on its own                                             *)
(***************************************************************************)

\* One request calls is_allowed(key).
IsAllowed(key) ==
    LET r == is_allowed(entries, key, now)
    IN  /\ entries' = r.entries
        /\ last_call' = [last_call EXCEPT ![key] =
                Some([at |-> now,
                      before |-> IF key \in DOMAIN entries THEN Some(entries[key]) ELSE None,
                      allowed |-> r.allowed])]
        /\ monitor' = [monitor EXCEPT ![key] = MonitorStep(@, now)]
        /\ UNCHANGED <<now, jwt_vars, ep_vars, conc_vars, oauth_vars, acct_vars, aux_vars, cfg_vars, media_vars, login_vars>>

\* Instant::now() moves on.
RLTick ==
    /\ \E t \in RLInstants : t > now /\ now' = t
    /\ UNCHANGED <<rl_vars, jwt_vars, ep_vars, conc_vars, oauth_vars, acct_vars, aux_vars, cfg_vars, media_vars, login_vars>>

RLNext ==
    \/ \E key \in Keys : IsAllowed(key)
    \/ RLTick

SpecRL == Init /\ [][RLNext]_vars

\* C8: with max_attempts = 5, window = 300 s and ban = 3600 s, the first 5 calls
\* for a fresh key, each less than a window after the one before, return true;
\* the 6th returns false and starts a ban of 3600 s; every call during the ban
\* returns false; the first call 3600 s or more after the ban started returns
\* true.
C8_RateLimitScenario ==
    \A k \in Keys :
        /\ IsSome(monitor[k].expect) =>
                /\ IsSome(last_call[k])
                /\ Unwrap(last_call[k]).allowed = Unwrap(monitor[k].expect)
        /\ monitor[k].phase = "banned" =>
                /\ k \in DOMAIN entries
                /\ entries[k].ban_expires = Some(monitor[k].ban_at + ban_duration_seconds)

\* The whole scenario has run: the ban is over and the call after it was accepted.
C8_Witness ==
    \E k \in Keys :
        /\ monitor[k].phase = "over"
        /\ monitor[k].expect = Some(TRUE)
        /\ Unwrap(last_call[k]).allowed
        /\ Unwrap(last_call[k]).at >= monitor[k].ban_at + ban_duration_seconds

\* A ban is active at time t.
BanActive(entry, t) == IsSome(entry.ban_expires) /\ t < Unwrap(entry.ban_expires)

\* C9: for a key with no active ban and N < max_attempts counted attempts, an
\* attempt a window or more after the last counted one is accepted and leaves
\* the count at 1; an attempt less than a window after it is accepted and
\* leaves the count at N + 1.
C9_SlidingReset ==
    \A k \in Keys :
        (IsSome(last_call[k]) /\ IsSome(Unwrap(last_call[k]).before)) =>
            LET c == Unwrap(last_call[k])
                e == Unwrap(c.before)
            IN  (~BanActive(e, c.at) /\ e.attempts < max_attempts) =>
                    /\ c.allowed
                    /\ c.at - e.last_attempt >= window_seconds => entries[k].attempts = 1
                    /\ c.at - e.last_attempt < window_seconds =>
                            entries[k].attempts = e.attempts + 1

\* An attempt a window or more after 2 to 4 counted ones has reset the count.
C9_Witness ==
    \E k \in Keys :
        /\ IsSome(last_call[k])
        /\ IsSome(Unwrap(last_call[k]).before)
        /\ LET c == Unwrap(last_call[k])
               e == Unwrap(c.before)
           IN  /\ e.attempts \in 2..(max_attempts - 1)
               /\ e.ban_expires = None
               /\ c.at - e.last_attempt >= window_seconds
               /\ c.allowed
               /\ entries[k].attempts = 1

\* C10: while a key is banned (ban expiry set and in the future) every
\* is_allowed call for it returns false and leaves its attempt count and its
\* last-attempt timestamp unchanged.
C10_BannedFrame ==
    \A k \in Keys :
        (IsSome(last_call[k]) /\ IsSome(Unwrap(last_call[k]).before)) =>
            LET c == Unwrap(last_call[k])
                e == Unwrap(c.before)
            IN  BanActive(e, c.at) =>
                    /\ ~c.allowed
                    /\ entries[k].attempts = e.attempts
                    /\ entries[k].last_attempt = e.last_attempt

\* A call made strictly after the ban started and before it ended was refused.
C10_Witness ==
    \E k \in Keys :
        /\ IsSome(last_call[k])
        /\ IsSome(Unwrap(last_call[k]).before)
        /\ LET c == Unwrap(last_call[k])
               e == Unwrap(c.before)
           IN  /\ BanActive(e, c.at)
               /\ c.at > e.last_attempt
               /\ ~c.allowed

\* C39: a ban ends. A call refused during a ban leaves the ban expiry no
\* later than it was, and the first call at or after the ban expiry clears
\* the ban, is accepted and leaves the count at 1.
C39_BanEnds ==
    \A k \in Keys :
        (IsSome(last_call[k]) /\ IsSome(Unwrap(last_call[k]).before)) =>
            LET c == Unwrap(last_call[k])
                e == Unwrap(c.before)
            IN  /\ BanActive(e, c.at) =>
                    /\ ~c.allowed
                    /\ IsSome(entries[k].ban_expires)
                    /\ Unwrap(entries[k].ban_expires) <= Unwrap(e.ban_expires)
                /\ (IsSome(e.ban_expires) /\ c.at >= Unwrap(e.ban_expires)) =>
                    /\ c.allowed
                    /\ entries[k].ban_expires = None
                    /\ entries[k].attempts = 1
                    /\ entries[k].last_attempt = c.at

\* The call that ends a ban: made at or after the expiry of a ban that calls
\* had been refused under, it was accepted and the key counts one attempt.
C39_Witness ==
    \E k \in Keys :
        /\ monitor[k].phase = "over"
        /\ IsSome(last_call[k])
        /\ IsSome(Unwrap(last_call[k]).before)
        /\ LET c == Unwrap(last_call[k])
               e == Unwrap(c.before)
           IN  /\ e.attempts = max_attempts
               /\ IsSome(e.ban_expires)
               /\ c.at >= Unwrap(e.ban_expires)
               /\ c.allowed
               /\ entries[k].ban_expires = None
               /\ entries[k].attempts = 1

\* C40: every key counts at most max_attempts attempts, which keeps the u32
\* counter from overflowing, and a key has a ban expiry only while its count
\* is max_attempts.
C40_CountWithinLimit ==
    \A k \in DOMAIN entries :
        /\ entries[k].attempts \in 0..max_attempts
        /\ IsSome(entries[k].ban_expires) => entries[k].attempts = max_attempts

\* A key at max_attempts with a ban set, and one refused call made under it.
C40_Witness ==
    \E k \in DOMAIN entries :
        /\ entries[k].attempts = max_attempts
        /\ IsSome(entries[k].ban_expires)
        /\ IsSome(last_call[k])
        /\ ~Unwrap(last_call[k]).allowed
        /\ Unwrap(last_call[k]).before = Some(entries[k])

(***************************************************************************)
(* The endpoints and the bearer middlewares, serving several connections   *)
(* at once: a handler runs up to its next store operation in one step       *)
(***************************************************************************)

\* How many logins succeed, and how many tokens have been signed at most when
\* a refresh request comes in.
MaxLogins == 1
MaxSigned == 3

\* The latest second at which a login comes in.
MaxLoginAt == 0

\* LoginRequest, by what the user repository makes of it.
Credentials == {"valid", "wrong_password", "unknown_user", "empty"}

\* The Authorization header of a request carrying the token, if any.
Headers(token) ==
    {None, Some([scheme |-> "Basic", credentials |-> token]),
           Some([scheme |-> "Bearer", credentials |-> token])}

\* The header must be there and start with "Bearer ".
bearer(header) ==
    IF header = None THEN Err("Unauthorized")
    ELSE IF Unwrap(header).scheme # "Bearer" THEN Err("Unauthorized")
    ELSE Ok(Unwrap(header).credentials)

\* refresh_token without its check of the token's kind.
refresh_kind_check_off(claims) == Ok(claims)

\* refresh_token: "Check that it's actually a refresh token".
refresh_kind_check(claims) ==
    IF claims.token_type # "Refresh" THEN Err("Unauthorized") ELSE Ok(claims)

\* logout: "Check that it's actually a refresh token".
logout_kind_check(claims) ==
    IF claims.token_type # "Refresh" THEN Err("Unauthorized") ELSE Ok(claims)

\* The claims a token carries, as the handler holds them after validation.
ClaimsOf(token) == decode(token, 0).val

Free(p) == pc[p].stage \in {"idle", "done"}
InFlight(p) == ~Free(p)

\* The request a connection sends: what it presents and whether that had
\* been blacklisted by then.
Request(op, token) ==
    [Idle EXCEPT !.op = op, !.token = token,
                 !.was_revoked = IsSome(token) /\ Unwrap(token) \in revoked]
Answer(r, status) == [r EXCEPT !.stage = "done", !.status = status]
Await(r, stage) == [r EXCEPT !.stage = stage]

\* Of the answers sent, the last one is kept.
Settle(f, p) ==
    [q \in Procs |-> IF q # p /\ f[p].stage = "done" /\ f[q].stage = "done"
                     THEN Idle ELSE f[q]]

\* Connection p takes up request r; whatever it had answered before is gone.
Serve(p, r) ==
    pc' = Settle([q \in Procs |-> IF q = p THEN r
                                  ELSE [pc[q] EXCEPT !.overlaps = @ \ {p}]], p)

\* The request on connection p moves on to r.
Proceed(p, r) == pc' = Settle([pc EXCEPT ![p] = r], p)

\* What a client can present: a token it was handed, or one it signed itself.
Holdable == known \cup {Forged}

\* POST /login, the logins answered OK numbering at most max_logins and
\* coming in no later than second max_login_at.
LoginUpTo(p, user, cred, max_logins, max_login_at) ==
    LET r == Request("login", None)
        access_token == generate_access_token(user, << >>, now)
        refresh_token == generate_refresh_token(user, now)
        s == redis_set(store, session_key(user), refresh_token,
                       Some(refresh_token_expiry), now)
    IN  /\ Free(p)
        /\ IF cred = "empty"
           THEN /\ Serve(p, Answer(r, "BadRequest"))
                /\ UNCHANGED <<store, issued, known>>
           ELSE IF cred \in {"unknown_user", "wrong_password"}
           THEN /\ Serve(p, Answer(r, "Unauthorized"))
                /\ UNCHANGED <<store, issued, known>>
           ELSE /\ Cardinality({k \in known : k.payload[6] = "Refresh"}) < max_logins
                /\ now <= max_login_at
                /\ issued' = issued \cup {Signed(access_token, "Access", user, << >>),
                                          Signed(refresh_token, "Refresh", user, << >>)}
                /\ store' = s.store
                /\ IF s.result.ok
                   THEN /\ known' = known \cup {access_token, refresh_token}
                        /\ Serve(p, Answer([r EXCEPT !.minted =
                                                <<access_token, refresh_token>>], "OK"))
                   ELSE /\ known' = known
                        /\ Serve(p, Answer(r, "InternalServerError"))
        /\ UNCHANGED <<now, rl_vars, call, bl_until, lapsed, rotated, revoked, logged_out, conc_vars, oauth_vars, acct_vars, aux_vars, cfg_vars, media_vars, login_vars>>

\* POST /login
Login(p, user, cred) == LoginUpTo(p, user, cred, MaxLogins, MaxLoginAt)

\* POST /refresh up to the answer of the blacklist lookup, while no more
\* than max_signed tokens have been signed.
RefreshBeginUpTo(p, token, max_signed) ==
    LET r == Request("refresh", Some(token))
        v == validate_token(token, now)
        k == IF v.ok THEN refresh_kind_check(v.val) ELSE v
    IN  /\ Free(p)
        /\ Cardinality(issued) <= max_signed
        /\ IF ~v.ok \/ ~k.ok \/ is_token_blacklisted(store, token, now)
           THEN Serve(p, Answer(r, "Unauthorized"))
           ELSE Serve(p, Await([r EXCEPT !.overlaps =
                                    {q \in Procs \ {p} :
                                        /\ InFlight(q)
                                        /\ pc[q].op = "refresh"
                                        /\ pc[q].token = Some(token)}],
                               "refresh_rotate"))
        /\ UNCHANGED <<now, rl_vars, jwt_vars, known, revoked, logged_out, conc_vars, oauth_vars, acct_vars, aux_vars, cfg_vars, media_vars, login_vars>>

\* POST /refresh up to the answer of the blacklist lookup.
RefreshBegin(p, token) == RefreshBeginUpTo(p, token, MaxSigned)

\* POST /refresh from there to the answer of the blacklist write: the new
\* access token and the rotation.
RefreshRotate(p) ==
    LET r == pc[p]
        token == Unwrap(r.token)
        user == ClaimsOf(token).sub
        access_token == generate_access_token(user, << >>, now)
        rot == rotate_refresh_token(store, user, token, now)
    IN  /\ r.stage = "refresh_rotate"
        /\ issued' = issued \cup {Signed(access_token, "Access", user, << >>)}
                            \cup (IF rot.result.ok
                                  THEN {Signed(rot.result.val, "Refresh", user, << >>)}
                                  ELSE {})
        /\ store' = rot.store
        /\ revoked' = IF rot.result.ok THEN revoked \cup {token} ELSE revoked
        /\ lineage' = IF rot.result.ok THEN lineage \cup {<<token, rot.result.val>>}
                       ELSE lineage
        /\ Proceed(p, IF rot.result.ok
                       THEN Await([r EXCEPT !.minted = <<access_token, rot.result.val>>],
                                  "refresh_session")
                       ELSE Answer([r EXCEPT !.minted = <<access_token>>],
                                   "InternalServerError"))
        /\ UNCHANGED <<now, rl_vars, call, bl_until, lapsed, rotated, known, logged_out, conc_vars, oauth_vars, acct_vars, expect, ended, cfg_vars, media_vars, login_vars>>

\* POST /refresh to its end: the session record and the response.
RefreshSession(p) ==
    LET r == pc[p]
        user == ClaimsOf(Unwrap(r.token)).sub
        s == redis_set(store, session_key(user), r.minted[2],
                       Some(refresh_token_expiry), now)
    IN  /\ r.stage = "refresh_session"
        /\ store' = s.store
        /\ IF s.result.ok
           THEN /\ known' = known \cup {r.minted[1]}
                /\ Proceed(p, Answer(r, "OK"))
           ELSE /\ known' = known
                /\ Proceed(p, Answer(r, "InternalServerError"))
        /\ UNCHANGED <<now, rl_vars, issued, call, bl_until, lapsed, rotated, revoked, logged_out, conc_vars, oauth_vars, acct_vars, aux_vars, cfg_vars, media_vars, login_vars>>

\* POST /logout up to the answer of the blacklist write.
LogoutBegin(p, token) ==
    LET r == Request("logout", Some(token))
        v == validate_token(token, now)
        k == IF v.ok THEN logout_kind_check(v.val) ELSE v
        b == blacklist_token(store, token, saturating_sub(v.val.exp, now), now)
    IN  /\ Free(p)
        /\ IF ~v.ok \/ ~k.ok
           THEN /\ Serve(p, Answer(r, "Unauthorized"))
                /\ UNCHANGED <<store, revoked>>
           ELSE /\ store' = b.store
                /\ IF b.result.ok
                   THEN /\ revoked' = revoked \cup {token}
                        /\ Serve(p, Await(r, "logout_delete"))
                   ELSE /\ revoked' = revoked
                        /\ Serve(p, Answer(r, "InternalServerError"))
        /\ UNCHANGED <<now, rl_vars, issued, call, bl_until, lapsed, rotated, known, logged_out, conc_vars, oauth_vars, acct_vars, aux_vars, cfg_vars, media_vars, login_vars>>

\* POST /logout to its end: the session record goes.
LogoutDelete(p) ==
    LET r == pc[p]
    IN  /\ r.stage = "logout_delete"
        /\ store' = redis_delete(store, session_key(ClaimsOf(Unwrap(r.token)).sub))
        /\ Proceed(p, Answer(r, "OK"))
        /\ logged_out' = logged_out \cup {Unwrap(r.token)}
        /\ ended' = ended \cup {i.token : i \in {j \in issued :
                            /\ j.kind = "Refresh"
                            /\ j.user = ClaimsOf(Unwrap(r.token)).sub}}
        /\ UNCHANGED <<now, rl_vars, issued, call, bl_until, lapsed, rotated, known,
                       revoked, conc_vars, oauth_vars, acct_vars, expect, lineage,
                       cfg_vars, media_vars, login_vars>>

\* The auth service's auth_middleware: OK is next.run(req).
AuthMiddleware(p, header) ==
    LET b == bearer(header)
        r == Request("auth_middleware", IF b.ok THEN Some(b.val) ELSE None)
    IN  /\ Free(p)
        /\ IF ~b.ok THEN Serve(p, Answer(r, "Unauthorized"))
           ELSE IF ~validate_token(b.val, now).ok
           THEN Serve(p, Answer(r, "Unauthorized"))
           ELSE IF is_token_blacklisted(store, b.val, now)
           THEN Serve(p, Answer(r, "Unauthorized"))
           ELSE Serve(p, Answer(r, "OK"))
        /\ UNCHANGED <<now, rl_vars, jwt_vars, known, revoked, logged_out, conc_vars, oauth_vars, acct_vars, aux_vars, cfg_vars, media_vars, login_vars>>

\* The API service's auth_middleware, its JWT configuration loaded.
ApiMiddleware(p, header) ==
    LET b == bearer(header)
        r == Request("api_middleware", IF b.ok THEN Some(b.val) ELSE None)
    IN  /\ Free(p)
        /\ IF ~b.ok THEN Serve(p, Answer(r, "Unauthorized"))
           ELSE IF ~decode(b.val, now).ok
           THEN Serve(p, Answer(r, "Unauthorized"))
           ELSE Serve(p, Answer(r, "OK"))
        /\ UNCHANGED <<now, rl_vars, jwt_vars, known, revoked, logged_out, conc_vars, oauth_vars, acct_vars, aux_vars, cfg_vars, media_vars, login_vars>>

\* SystemTime::now() moves on; the store drops what has expired; the
\* responses have been delivered.
Tick ==
    /\ \E t \in Instants : t > now /\ now' = t
    /\ store' = Expire(store, now')
    /\ pc' = [p \in Procs |-> IF pc[p].stage = "done" THEN Idle ELSE pc[p]]
    /\ UNCHANGED <<rl_vars, issued, call, bl_until, lapsed, rotated, known, revoked, logged_out, conc_vars, oauth_vars, acct_vars, aux_vars, cfg_vars, media_vars, login_vars>>

Next ==
    \/ \E p \in Procs, user \in Users, cred \in Credentials : Login(p, user, cred)
    \/ \E p \in Procs, token \in Holdable : RefreshBegin(p, token)
    \/ \E p \in Procs : RefreshRotate(p)
    \/ \E p \in Procs : RefreshSession(p)
    \/ \E p \in Procs, token \in Holdable : LogoutBegin(p, token)
    \/ \E p \in Procs : LogoutDelete(p)
    \/ \E p \in Procs, token \in Holdable : \E header \in Headers(token) :
            AuthMiddleware(p, header)
    \/ \E p \in Procs, token \in Holdable : \E header \in Headers(token) :
            ApiMiddleware(p, header)
    \/ Tick

Spec == Init /\ [][Next]_vars

\* C1: once a token has been blacklisted, by logout or by rotation, no later
\* refresh request and no later bearer check presenting it is accepted.
C1_BlacklistedNeverAccepted ==
    \A p \in Procs :
        (/\ pc[p].stage = "done"
         /\ pc[p].op \in {"refresh", "auth_middleware", "api_middleware"}
         /\ pc[p].was_revoked)
            => pc[p].status # "OK"

\* The request on connection p has had rotate_refresh_token succeed.
HasRotated(p) == pc[p].op = "refresh" /\ Len(pc[p].minted) = 2

\* C3: of two refresh requests presenting the same refresh token and running
\* at once, at most one has its rotation succeed, so that one old token never
\* yields two new refresh tokens.
C3_ConcurrentRefreshOneWinner ==
    \A p, q \in Procs :
        (/\ p # q
         /\ q \in pc[p].overlaps
         /\ pc[p].token = pc[q].token)
            => ~(/\ HasRotated(p)
                 /\ HasRotated(q)
                 /\ pc[p].minted[2] # pc[q].minted[2])

\* C4: a bearer middleware, of the auth or of the API service, accepts a token
\* only if its token_type is Access.
C4_BearerAcceptsOnlyAccess ==
    \A p \in Procs :
        (/\ pc[p].stage = "done"
         /\ pc[p].op \in {"auth_middleware", "api_middleware"}
         /\ pc[p].status = "OK")
            => ClaimsOf(Unwrap(pc[p].token)).token_type = "Access"

(***************************************************************************)
(* The endpoints serving one connection                                    *)
(***************************************************************************)

SerialNext ==
    \/ \E user \in Users, cred \in Credentials : Login("p1", user, cred)
    \/ \E token \in Holdable : RefreshBegin("p1", token)
    \/ RefreshRotate("p1")
    \/ RefreshSession("p1")
    \/ \E token \in Holdable : LogoutBegin("p1", token)
    \/ LogoutDelete("p1")
    \/ Tick

SpecSerial == Init /\ [][SerialNext]_vars

\* The service's signature on an Access-kind token, whatever its expiry.
SignedAccess(token) == token.sig = "service_key" /\ token.payload[6] = "Access"

\* C5: a refresh or logout request presenting a validly signed Access-kind
\* token is answered Unauthorized in its first step, and that step writes
\* nothing to the store (blacklist and sessions) and signs no token.
C5_AccessKindRejected ==
    [][\A p \in Procs :
        (/\ pc'[p] # pc[p]
         /\ pc'[p].op \in {"refresh", "logout"}
         /\ SignedAccess(Unwrap(pc'[p].token)))
            => /\ pc'[p].stage = "done"
               /\ pc'[p].status = "Unauthorized"
               /\ store' = store
               /\ issued' = issued]_vars

\* An unexpired Access-kind token has just been presented to /logout and
\* refused, the session of its user still in the store.
C5_Witness ==
    /\ pc["p1"].stage = "done"
    /\ pc["p1"].op = "logout"
    /\ SignedAccess(Unwrap(pc["p1"].token))
    /\ validate_token(Unwrap(pc["p1"].token), now).ok
    /\ pc["p1"].status = "Unauthorized"
    /\ IsSome(redis_get(store, session_key(ClaimsOf(Unwrap(pc["p1"].token)).sub), now))

(***************************************************************************)
(* The rate limiter called by several tasks at once: a call runs from one  *)
(* statement group to the next in a step                                   *)
(***************************************************************************)

\* self.entries.lock().await goes through although the mutex is held.
lock_unguarded(m) == TRUE

\* self.entries.lock().await: tokio's Mutex lets one task through at a time.
lock(m) == m = None

\* entry.attempts >= self.config.max_attempts
over_limit(entry) == entry.attempts >= max_attempts

\* entry.attempts += 1; entry.last_attempt = now
increment(entry, t) == [entry EXCEPT !.attempts = @ + 1, !.last_attempt = t]

\* The calls made so far, returned or not.
Started ==
    Cardinality({c \in Callers : calls[c].stage # "idle"})
        + tally["k1"].yes + tally["k1"].no + tally["k2"].yes + tally["k2"].no

\* A task calls is_allowed(key) and reaches lock().await.
ConcCall(c, key) ==
    /\ calls[c].stage = "idle"
    /\ \A d \in Callers : d < c => calls[d].stage # "idle"
    /\ Started < MaxCalls
    /\ calls' = [calls EXCEPT ![c] = [@ EXCEPT !.stage = "waiting", !.key = key]]
    /\ UNCHANGED <<now, rl_vars, jwt_vars, ep_vars, mutex, tally, oauth_vars, acct_vars, aux_vars, cfg_vars, media_vars, login_vars>>

\* The task gets the mutex and reads Instant::now().
ConcLock(c) ==
    /\ calls[c].stage = "waiting"
    /\ lock(mutex)
    /\ mutex' = Some(c)
    /\ calls' = [calls EXCEPT ![c] = [@ EXCEPT !.stage = "locked", !.t = now]]
    /\ UNCHANGED <<now, rl_vars, jwt_vars, ep_vars, tally, oauth_vars, acct_vars, aux_vars, cfg_vars, media_vars, login_vars>>

\* or_insert, the ban check, the window check and the limit check: the call
\* returns false, dropping the guard, or goes on to the increment.
ConcCheck(c) ==
    LET key == calls[c].key
        t == calls[c].t
        b == ban_check(or_insert(entries, key, t), t)
        w == window_check(b.entry, t)
    IN  /\ calls[c].stage = "locked"
        /\ IF b.banned \/ over_limit(w)
           THEN /\ entries' = Put(entries, key,
                                  IF b.banned THEN b.entry ELSE limit_check(w, t).entry)
                /\ calls' = [calls EXCEPT ![c] = NoCall]
                /\ tally' = [tally EXCEPT ![key].no = @ + 1]
                /\ mutex' = None
           ELSE /\ entries' = Put(entries, key, w)
                /\ calls' = [calls EXCEPT ![c] = [@ EXCEPT !.stage = "increment"]]
                /\ UNCHANGED <<tally, mutex>>
        /\ UNCHANGED <<now, last_call, monitor, jwt_vars, ep_vars, oauth_vars, acct_vars, aux_vars, cfg_vars, media_vars, login_vars>>

\* The increment; the call returns true, dropping the guard.
ConcIncrement(c) ==
    /\ calls[c].stage = "increment"
    /\ entries' = [entries EXCEPT ![calls[c].key] = increment(@, calls[c].t)]
    /\ calls' = [calls EXCEPT ![c] = NoCall]
    /\ tally' = [tally EXCEPT ![calls[c].key].yes = @ + 1]
    /\ mutex' = None
    /\ UNCHANGED <<now, last_call, monitor, jwt_vars, ep_vars, oauth_vars, acct_vars, aux_vars, cfg_vars, media_vars, login_vars>>

\* Instant::now() moves on, the whole run within one window.
ConcTick ==
    /\ \E t \in RLInstants : t > now /\ t < window_seconds /\ now' = t
    /\ UNCHANGED <<rl_vars, jwt_vars, ep_vars, conc_vars, oauth_vars, acct_vars, aux_vars, cfg_vars, media_vars, login_vars>>

ConcNext ==
    \/ \E c \in Callers, key \in ConcKeys : ConcCall(c, key)
    \/ \E c \in Callers : ConcLock(c)
    \/ \E c \in Callers : ConcCheck(c)
    \/ \E c \in Callers : ConcIncrement(c)
    \/ ConcTick

SpecRLConc == Init /\ [][ConcNext]_vars

\* The tasks inside is_allowed's critical section for a key.
Inside(k) == {c \in Callers : calls[c].key = k /\ calls[c].stage \in {"locked", "increment"}}

\* C11: concurrent is_allowed calls on one key take effect one at a time: no
\* counter update is lost, so within one window at most max_attempts calls for
\* a fresh key return true, a call returns false only once max_attempts have
\* returned true, and the counter is the number of calls that returned true.
C11_LinearCounter ==
    \A k \in ConcKeys :
        /\ tally[k].yes <= max_attempts
        /\ tally[k].no > 0 => tally[k].yes = max_attempts
        /\ (Inside(k) = {} /\ k \in DOMAIN entries) => entries[k].attempts = tally[k].yes

\* The last free attempt of a key is being taken while another call for the
\* same key waits for the mutex.
C11_Witness ==
    /\ tally["k1"].yes = max_attempts - 1
    /\ \E c, d \in Callers :
            /\ mutex = Some(c)
            /\ calls[c].key = "k1" /\ calls[c].stage = "increment"
            /\ calls[d].key = "k1" /\ calls[d].stage = "waiting"

\* C12: the table has a lock per key: a call for one key never waits for the
\* lock while a call for another key holds it.
C12_NoCrossKeyWait ==
    \A c \in Callers :
        (calls[c].stage = "waiting" /\ IsSome(mutex))
            => calls[Unwrap(mutex)].key = calls[c].key

(***************************************************************************)
(* The session lifecycle over one connection: login, refresh, logout       *)
(***************************************************************************)

\* The user a presented token names.
Subject(p) == ClaimsOf(Unwrap(pc[p].token)).sub

Answered(p, op) == pc[p].stage = "done" /\ pc[p].op = op

\* C13: a login or refresh request first passes the rate limiter: by the time
\* the handler has done anything, is_allowed has run for the client's key and
\* has left the key's entry in the table.
C13_RateLimiterFirst ==
    \A p \in Procs :
        (pc[p].op \in {"login", "refresh"} /\ pc[p].stage # "idle")
            => \E k \in Keys : k \in DOMAIN entries

\* C15: a successful refresh hands the caller the new refresh token next to
\* the new access token, so the caller then holds a refresh token of the user
\* that is not blacklisted.
C15_RefreshReturnsPair ==
    \A p \in Procs :
        (Answered(p, "refresh") /\ pc[p].status = "OK")
            => /\ pc[p].minted[1] \in known
               /\ pc[p].minted[2] \in known
               /\ \E k \in known :
                    /\ ClaimsOf(k).token_type = "Refresh"
                    /\ ClaimsOf(k).sub = Subject(p)
                    /\ ~is_token_blacklisted(store, k, now)

\* C16: after a logout answered OK for refresh token T of user u, the session
\* record of u is absent, T is blacklisted for as long as it would validate,
\* and a refresh request presenting T is answered Unauthorized.
C16_LogoutIsFinal ==
    /\ \A p \in Procs :
        (Answered(p, "logout") /\ pc[p].status = "OK")
            => redis_get(store, session_key(Subject(p)), now) = None
    /\ \A T \in logged_out :
        validate_token(T, now).ok => is_token_blacklisted(store, T, now)
    /\ \A p \in Procs :
        (Answered(p, "refresh") /\ Unwrap(pc[p].token) \in logged_out)
            => pc[p].status = "Unauthorized"

\* C17: when a refresh request presenting T has been answered OK, T is
\* blacklisted, if it would still validate, and the session record of its
\* user holds the refresh token that request minted.
C17_RefreshRotatesSession ==
    \A p \in Procs :
        (Answered(p, "refresh") /\ pc[p].status = "OK")
            => /\ validate_token(Unwrap(pc[p].token), now).ok
                    => is_token_blacklisted(store, Unwrap(pc[p].token), now)
               /\ redis_get(store, session_key(Subject(p)), now) = Some(pc[p].minted[2])

(***************************************************************************)
(* SessionManager: the session record of a user, its operations called one *)
(* at a time                                                               *)
(***************************************************************************)

\* The seconds at which the refresh tokens kept in sessions were signed.
MaxSessionIat == 1
SessionTokens == {generate_refresh_token(u, t) : u \in Users, t \in 0..MaxSessionIat}

\* SessionManager::get_session
get_session(st, user_id, t) == redis_get(st, session_key(user_id), t)

\* create_session writing only where no session is there yet.
create_session_keep(st, user_id, refresh_token, t) ==
    IF IsSome(get_session(st, user_id, t))
    THEN [result |-> Ok("OK"), store |-> st]
    ELSE redis_set(st, session_key(user_id), refresh_token,
                   Some(refresh_token_expiry), t)

\* SessionManager::create_session
create_session(st, user_id, refresh_token, t) ==
    redis_set(st, session_key(user_id), refresh_token, Some(refresh_token_expiry), t)

\* SessionManager::update_session
update_session(st, user_id, refresh_token, t) ==
    redis_set(st, session_key(user_id), refresh_token, Some(refresh_token_expiry), t)

\* SessionManager::delete_session
delete_session(st, user_id) == redis_delete(st, session_key(user_id))

\* SessionManager::is_session_valid
is_session_valid(st, user_id, refresh_token, t) ==
    LET stored_token == get_session(st, user_id, t)
    IN  IF IsSome(stored_token) THEN Unwrap(stored_token) = refresh_token ELSE FALSE

\* The call just answered, with the session the user had before it.
SessCalled(op, user, token, result) ==
    Some([op |-> op, user |-> user, token |-> token, at |-> now, result |-> result,
          before |-> get_session(store, user, now)])

SessCreate(user, token) ==
    LET r == create_session(store, user, token, now)
    IN  /\ store' = r.store
        /\ call' = SessCalled("create_session", user, Some(token), r.result)
        /\ UNCHANGED <<now, rl_vars, ep_vars, conc_vars, issued, bl_until, lapsed, rotated, oauth_vars, acct_vars, aux_vars, cfg_vars, media_vars, login_vars>>

SessUpdate(user, token) ==
    LET r == update_session(store, user, token, now)
    IN  /\ store' = r.store
        /\ call' = SessCalled("update_session", user, Some(token), r.result)
        /\ UNCHANGED <<now, rl_vars, ep_vars, conc_vars, issued, bl_until, lapsed, rotated, oauth_vars, acct_vars, aux_vars, cfg_vars, media_vars, login_vars>>

SessGet(user) ==
    /\ call' = SessCalled("get_session", user, None, Ok(get_session(store, user, now)))
    /\ UNCHANGED <<now, rl_vars, ep_vars, conc_vars, store, issued, bl_until, lapsed, rotated, oauth_vars, acct_vars, aux_vars, cfg_vars, media_vars, login_vars>>

SessIsValid(user, token) ==
    /\ call' = SessCalled("is_session_valid", user, Some(token),
                          Ok(is_session_valid(store, user, token, now)))
    /\ UNCHANGED <<now, rl_vars, ep_vars, conc_vars, store, issued, bl_until, lapsed, rotated, oauth_vars, acct_vars, aux_vars, cfg_vars, media_vars, login_vars>>

SessDelete(user) ==
    /\ store' = delete_session(store, user)
    /\ call' = SessCalled("delete_session", user, None, Ok("OK"))
    /\ UNCHANGED <<now, rl_vars, ep_vars, conc_vars, issued, bl_until, lapsed, rotated, oauth_vars, acct_vars, aux_vars, cfg_vars, media_vars, login_vars>>

SessNext ==
    \/ \E user \in Users, token \in SessionTokens : SessCreate(user, token)
    \/ \E user \in Users, token \in SessionTokens : SessUpdate(user, token)
    \/ \E user \in Users : SessGet(user)
    \/ \E user \in Users, token \in SessionTokens : SessIsValid(user, token)
    \/ \E user \in Users : SessDelete(user)
    \/ RevTick

SpecSession == Init /\ [][SessNext]_vars

\* C14: session replacement. Once create_session(u, T2) or
\* update_session(u, T2) has succeeded, whatever session u had before,
\* get_session(u) is Some(T2), is_session_valid(u, T2) is true and
\* is_session_valid(u, T1) is false for every other token T1; and
\* get_session and is_session_valid answer from the record last written.
C14_SessionReplacement ==
    IsSome(call) =>
        LET c == Unwrap(call)
        IN  /\ (c.op \in {"create_session", "update_session"} /\ c.result.ok) =>
                /\ get_session(store, c.user, now) = c.token
                /\ is_session_valid(store, c.user, Unwrap(c.token), now)
                /\ \A T1 \in SessionTokens \ {Unwrap(c.token)} :
                        ~is_session_valid(store, c.user, T1, now)
            /\ c.op = "get_session" => c.result.val = c.before
            /\ c.op = "is_session_valid" => c.result.val = (c.before = c.token)

\* A session holding another token has just been replaced.
C14_Witness ==
    /\ IsSome(call)
    /\ Unwrap(call).op = "create_session"
    /\ Unwrap(call).result.ok
    /\ IsSome(Unwrap(call).before)
    /\ Unwrap(call).before # Unwrap(call).token
    /\ get_session(store, Unwrap(call).user, now) = Unwrap(call).token

(***************************************************************************)
(* UserRepository: the users table, a row per account                      *)
(***************************************************************************)

\* The ids the table gives the rows of registered accounts, in order.
MaxAccounts == 2
RowIds == [n \in 1..MaxAccounts + 1 |-> "row" \o ToString(n)]

\* UserRepository::find_by_username_or_email: the rows the query matches;
\* fetch_optional answers with one of them, with None when there is none.
find_by_username_or_email(rows, username_or_email) ==
    {row \in rows : row.username = username_or_email \/ row.email = username_or_email}

\* Argon2::default().hash_password(password, &salt): the PHC string, which
\* carries the salt; two passwords under one salt never hash alike.
hash_password(password, salt) == [salt |-> salt, digest |-> <<password, salt>>]

\* UserRepository::create: the row INSERT ... RETURNING adds, the password
\* hashed under the salt SaltString::generate drew for it, no two rows the
\* same salt.
create(rows, id, username, email, password) ==
    rows \cup {[id |-> id, username |-> username, email |-> email,
                password_hash |-> hash_password(password, id)]}

\* UserRepository::verify_password
verify_password(user, password) ==
    hash_password(password, user.password_hash.salt) = user.password_hash

\* OAuthUserProfile.email of the provider's user, and the username
\* format!("{}_{}", provider, user_profile.id) its new account gets.
profile_email(user) == <<user, "@", "b", ".", "a", "b">>
profile_username(provider, user) == <<provider, "_", user>>

(***************************************************************************)
(* The federated login: oauth_authorize and oauth_callback                 *)
(***************************************************************************)

\* "Some(300), // 5 minutes expiry"
handshake_ttl == 300

\* The authorizations started in all; a csrf token is CsrfToken::new_random,
\* never the same twice.
MaxHandshakes == 2
CsrfTokens == 1..MaxHandshakes

\* The callbacks that get as far as a signed token pair.
MaxFederated == 1

\* The seconds the handshakes are observed at: the first two, and the two
\* around the expiry of a handshake stored at second 0.
OAuthInstants == {0, 1, handshake_ttl, handshake_ttl + 1}

\* payload.provider
Providers == {"google", "apple", "github"}

\* state.google_oauth_client / state.apple_oauth_client: the service runs
\* with the Google client configured and without the Apple one.
oauth_client(provider) == IF provider = "google" THEN Some("google_client") ELSE None

\* format!("oauth_session:{}", csrf_token)
oauth_session_key(csrf_token) == [ns |-> "oauth_session", id |-> csrf_token]

\* OAuthSession::new
OAuthSession(csrf_token, pkce_verifier, provider, created_at) ==
    [csrf_token |-> csrf_token, pkce_verifier |-> pkce_verifier,
     provider |-> provider, created_at |-> created_at]

\* OAuthCallbackRequest { code, state, error }
Payloads ==
    [error : {None, Some("access_denied")},
     code : {None, Some("code")},
     state : {None} \cup {Some(c) : c \in CsrfTokens}]

\* What the provider and the user repository answer to a callback: a failed
\* code exchange, a failed profile request, a failed lookup, or the user.
Exchanges == {"exchange_failed", "profile_failed", "repository_failed"} \cup Users

\* "Store session in Redis" with the expiry left out.
store_handshake_forever(st, key, session, t) == redis_set(st, key, session, None, t)

\* oauth_authorize: "Store session in Redis", "Some(300), // 5 minutes expiry"
store_handshake(st, key, session, t) ==
    redis_set(st, key, session, Some(handshake_ttl), t)

\* POST /auth/oauth/authorize
oauth_authorize(provider) ==
    LET csrf_token == Len(handshakes) + 1
        session == OAuthSession(csrf_token, <<"pkce", csrf_token>>, provider, now)
        s == store_handshake(store, oauth_session_key(csrf_token), session, now)
    IN  /\ Len(handshakes) < MaxHandshakes
        /\ IF provider \notin {"google", "apple"} \/ ~IsSome(oauth_client(provider))
           THEN UNCHANGED <<store, handshakes>>
           ELSE /\ store' = s.store
                /\ handshakes' = Append(handshakes, [takers |-> 0, outcomes |-> {},
                                                   created_at |-> now])
        /\ UNCHANGED <<now, rl_vars, issued, call, bl_until, lapsed, rotated,
                       ep_vars, conc_vars, cb, acct_vars, aux_vars, cfg_vars, media_vars, login_vars>>

CbFree(p) == cb[p].stage \in {"idle", "done"}
CbAnswer(r, status) == [r EXCEPT !.stage = "done", !.status = status]

\* The callback on connection p has been answered: the handshake it took
\* has that answer among its outcomes.
CbOutcome(r, status) ==
    [handshakes EXCEPT ![Unwrap(r.state)].outcomes = @ \cup {status}]

\* "Remove session from Redis (one-time use)" with the removal left out.
consume_handshake_keep(st, key) == st

\* "Remove session from Redis (one-time use)"
consume_handshake(st, key) == redis_delete(st, key)

\* Why the state value of a callback has no live handshake behind it at
\* second t: none was stored under it, a callback has removed it, or it was
\* stored more than handshake_ttl seconds ago; "" when it has one.
Dead(state, t) ==
    IF ~IsSome(state) THEN ""
    ELSE IF Unwrap(state) \notin DOMAIN handshakes THEN "never issued"
    ELSE IF handshakes[Unwrap(state)].takers > 0 THEN "consumed"
    ELSE IF t - handshakes[Unwrap(state)].created_at > handshake_ttl THEN "expired"
    ELSE ""

\* oauth_callback up to the answer of the handshake lookup.
CallbackBegin(p, payload) ==
    LET r == [NoCallback EXCEPT
                !.state = payload.state,
                !.dead = Dead(payload.state, now),
                !.complete = /\ ~IsSome(payload.error)
                             /\ IsSome(payload.code)
                             /\ IsSome(payload.state),
                !.replay = /\ ~IsSome(payload.error)
                           /\ IsSome(payload.code)
                           /\ IsSome(payload.state)
                           /\ Unwrap(payload.state) \in DOMAIN handshakes
                           /\ handshakes[Unwrap(payload.state)].takers > 0]
        session_json == redis_get(store, oauth_session_key(Unwrap(payload.state)), now)
    IN  /\ CbFree(p)
        /\ IF IsSome(payload.error) \/ ~IsSome(payload.code) \/ ~IsSome(payload.state)
           THEN cb' = [cb EXCEPT ![p] = CbAnswer(r, "BadRequest")]
           ELSE IF ~IsSome(session_json)
           THEN cb' = [cb EXCEPT ![p] = CbAnswer(r, "BadRequest")]
           ELSE cb' = [cb EXCEPT ![p] = [r EXCEPT !.stage = "delete",
                                                  !.session = session_json]]
        /\ UNCHANGED <<now, rl_vars, jwt_vars, ep_vars, conc_vars, handshakes, acct_vars, aux_vars, cfg_vars, media_vars, login_vars>>

\* oauth_callback: the handshake is removed, the client of its provider
\* looked up, and the code goes to the provider.
CallbackDelete(p) ==
    LET r == cb[p]
    IN  /\ r.stage = "delete"
        /\ store' = consume_handshake(store, oauth_session_key(Unwrap(r.state)))
        /\ IF IsSome(oauth_client(Unwrap(r.session).provider))
           THEN /\ cb' = [cb EXCEPT ![p] = [r EXCEPT !.stage = "exchange"]]
                /\ handshakes' = [handshakes EXCEPT ![Unwrap(r.state)].takers = @ + 1]
           ELSE /\ cb' = [cb EXCEPT ![p] = CbAnswer(r, "InternalServerError")]
                /\ handshakes' = handshakes
        /\ UNCHANGED <<now, rl_vars, issued, call, bl_until, lapsed, rotated,
                       ep_vars, conc_vars, acct_vars, aux_vars, cfg_vars, media_vars, login_vars>>

\* OAuthUserProfile { id, email, verified_email } of a provider's user whose
\* account, if the callback creates it, is that user's.
OAuthUserProfile(user) ==
    [id |-> user, email |-> profile_email(user), verified_email |-> TRUE]

\* oauth_callback: exchange_code, get_user_profile (answered with a profile
\* or failing), the user found or created, and the token pair signed.
CallbackProfile(p, answer) ==
    LET r == cb[p]
        profile == answer.val
        existing_user == find_by_username_or_email(accounts, profile.email)
        new_user == [id |-> profile.id,
                     username |-> profile_username(Unwrap(r.session).provider, profile.id),
                     email |-> profile.email,
                     password_hash |-> hash_password(<< >>, profile.id)]
    IN  /\ r.stage = "exchange"
        /\ IF ~answer.ok
           THEN /\ cb' = [cb EXCEPT ![p] = CbAnswer(r, "InternalServerError")]
                /\ handshakes' = CbOutcome(r, "InternalServerError")
                /\ issued' = issued
                /\ accounts' = accounts
           ELSE /\ Cardinality(issued) < 2 * MaxFederated
                /\ \E user \in IF existing_user # {} THEN existing_user ELSE {new_user} :
                    LET access_token == generate_access_token(user.id, << >>, now)
                        refresh_token == generate_refresh_token(user.id, now)
                    IN  /\ accounts' =
                            IF existing_user # {} THEN accounts
                            ELSE create(accounts, new_user.id, new_user.username,
                                        new_user.email, << >>)
                        /\ cb' = [cb EXCEPT ![p] = [r EXCEPT !.stage = "session",
                                        !.user = Some(user.id),
                                        !.profile = Some(profile),
                                        !.linked = existing_user # {},
                                        !.minted = <<access_token, refresh_token>>]]
                        /\ issued' = issued \cup
                                {Signed(access_token, "Access", user.id, << >>),
                                 Signed(refresh_token, "Refresh", user.id, << >>)}
                /\ handshakes' = handshakes
        /\ UNCHANGED <<now, rl_vars, store, call, bl_until, lapsed, rotated,
                       ep_vars, conc_vars, rg, text, verdict, aux_vars, cfg_vars, media_vars, login_vars>>

\* oauth_callback at the provider: a failed code exchange, a failed profile
\* request, a failed lookup, or the profile of the provider's user.
CallbackExchange(p, outcome) ==
    CallbackProfile(p, IF outcome \in Users THEN Ok(OAuthUserProfile(outcome))
                       ELSE Err(outcome))

\* oauth_callback: "Store session in Redis" and the response.
CallbackSession(p) ==
    LET r == cb[p]
        s == redis_set(store, session_key(Unwrap(r.user)), r.minted[2],
                       Some(refresh_token_expiry), now)
    IN  /\ r.stage = "session"
        /\ store' = s.store
        /\ IF s.result.ok
           THEN /\ cb' = [cb EXCEPT ![p] = CbAnswer(r, "OK")]
                /\ handshakes' = CbOutcome(r, "OK")
                /\ known' = known \cup {r.minted[1], r.minted[2]}
           ELSE /\ cb' = [cb EXCEPT ![p] = CbAnswer([r EXCEPT !.minted = << >>],
                                                    "InternalServerError")]
                /\ handshakes' = CbOutcome(r, "InternalServerError")
                /\ known' = known
        /\ UNCHANGED <<now, rl_vars, issued, call, bl_until, lapsed, rotated,
                       pc, revoked, logged_out, conc_vars, acct_vars, aux_vars, cfg_vars, media_vars, login_vars>>

\* SystemTime::now() moves on; the store drops what has expired; the
\* responses have been delivered.
OAuthTick ==
    /\ \E t \in OAuthInstants : t > now /\ now' = t
    /\ store' = Expire(store, now')
    /\ cb' = [p \in Procs |-> IF cb[p].stage = "done" THEN NoCallback ELSE cb[p]]
    /\ UNCHANGED <<rl_vars, issued, call, bl_until, lapsed, rotated, ep_vars,
                   conc_vars, handshakes, acct_vars, aux_vars, cfg_vars, media_vars, login_vars>>

OAuthNext ==
    \/ \E provider \in Providers : oauth_authorize(provider)
    \/ \E p \in Procs, payload \in Payloads : CallbackBegin(p, payload)
    \/ \E p \in Procs : CallbackDelete(p)
    \/ \E p \in Procs, outcome \in Exchanges : CallbackExchange(p, outcome)
    \/ \E p \in Procs : CallbackSession(p)
    \/ OAuthTick

SpecOAuth == Init /\ [][OAuthNext]_vars

\* The callbacks arriving on one connection, one after the other.
OAuthSerialNext ==
    \/ \E provider \in Providers : oauth_authorize(provider)
    \/ \E payload \in Payloads : CallbackBegin("p1", payload)
    \/ CallbackDelete("p1")
    \/ \E outcome \in Exchanges : CallbackExchange("p1", outcome)
    \/ CallbackSession("p1")
    \/ OAuthTick

SpecOAuthSerial == Init /\ [][OAuthSerialNext]_vars

\* C18: the handshake is single-use. A callback that arrives after another
\* callback with the same state value has removed the handshake record is
\* answered BadRequest, whether that one went on to succeed or to fail.
C18_HandshakeSingleUse ==
    \A p \in Procs :
        (cb[p].stage # "idle" /\ cb[p].replay)
            => cb[p].stage = "done" /\ cb[p].status = "BadRequest"

\* A replayed callback, code and state in hand, answered BadRequest after the
\* first callback had removed the handshake and then failed at the provider.
C18_Witness ==
    \E p \in Procs :
        /\ cb[p].stage = "done"
        /\ cb[p].replay
        /\ cb[p].status = "BadRequest"
        /\ handshakes[Unwrap(cb[p].state)].outcomes = {"InternalServerError"}

\* C19: of the callbacks carrying the same state value, running at once or
\* not, at most one retrieves the handshake record and goes on to the code
\* exchange.
C19_OneCallbackTakesHandshake ==
    \A c \in DOMAIN handshakes : handshakes[c].takers <= 1

(***************************************************************************)
(* Login while the store is out of reach                                   *)
(***************************************************************************)

\* RedisPool::set when get_connection fails: nothing is written.
redis_set_unreachable(st) == [result |-> Err("connection refused"), store |-> st]

\* login answering with the token pair whatever the session write returned.
login_respond_degraded(written, token_pair) == Ok(token_pair)

\* login: `.map_err(|e| ... AuthError::InternalServerError)?` on the session
\* write, then the LoginResponse.
login_respond(written, token_pair) ==
    IF written.ok THEN Ok(token_pair) ELSE Err("InternalServerError")

\* POST /login with valid credentials while the store takes no connection.
LoginStoreDown(p, user) ==
    LET r == Request("login", None)
        access_token == generate_access_token(user, << >>, now)
        refresh_token == generate_refresh_token(user, now)
        s == redis_set_unreachable(store)
        a == login_respond(s.result, <<access_token, refresh_token>>)
    IN  /\ Free(p)
        /\ now <= MaxLoginAt
        /\ issued' = issued \cup {Signed(access_token, "Access", user, << >>),
                                  Signed(refresh_token, "Refresh", user, << >>)}
        /\ store' = s.store
        /\ IF a.ok
           THEN /\ known' = known \cup {a.val[1], a.val[2]}
                /\ Serve(p, Answer([r EXCEPT !.minted = a.val], "OK"))
           ELSE /\ known' = known
                /\ Serve(p, Answer(r, a.err))
        /\ UNCHANGED <<now, rl_vars, call, bl_until, lapsed, rotated, revoked,
                       logged_out, conc_vars, oauth_vars, acct_vars, aux_vars, cfg_vars, media_vars, login_vars>>

LoginNext ==
    \/ SerialNext
    \/ \E user \in Users : LoginStoreDown("p1", user)

SpecLogin == Init /\ [][LoginNext]_vars

\* C20: login does not degrade. A login answered OK returns a token pair
\* whose refresh token is, at that moment, the session record of its user;
\* a login answered otherwise, a failed session write included, returns no
\* token and hands the caller nothing.
C20_LoginNoDegrade ==
    [][\A p \in Procs :
        (pc'[p].op = "login" /\ pc'[p].stage = "done" /\ pc' # pc) =>
            IF pc'[p].status = "OK"
            THEN /\ Len(pc'[p].minted) = 2
                 /\ ClaimsOf(pc'[p].minted[2]).token_type = "Refresh"
                 /\ redis_get(store', session_key(ClaimsOf(pc'[p].minted[2]).sub), now')
                        = Some(pc'[p].minted[2])
                 /\ known' = known \cup {pc'[p].minted[1], pc'[p].minted[2]}
            ELSE /\ pc'[p].minted = << >>
                 /\ known' = known]_vars

\* Valid credentials, the pair signed, the session write refused: the login
\* is answered InternalServerError and the caller holds no token.
C20_Witness ==
    \E p \in Procs :
        /\ Answered(p, "login")
        /\ pc[p].status = "InternalServerError"
        /\ issued # {}
        /\ known = {}

(***************************************************************************)
(* Input validation. A string is the sequence of its characters; a         *)
(* character outside ASCII is named, and takes several bytes in UTF-8.     *)
(***************************************************************************)

AsciiUpper == {"A", "B"}
AsciiLower == {"a", "b", "c"}
AsciiDigit == {"1", "2"}

\* char::len_utf8
len_utf8(c) == IF c = "e_acute" THEN 2 ELSE IF c = "euro" THEN 3 ELSE 1

\* str::len, the length in bytes: a character is 1 to 4 bytes long
str_len(s) ==
    LET wide(n) == Cardinality({i \in 1..Len(s) : len_utf8(s[i]) = n})
    IN  wide(1) + 2 * wide(2) + 3 * wide(3) + 4 * wide(4)

\* str::chars().count(), the length in characters
char_count(s) == Len(s)

is_ascii_uppercase(c) == c \in AsciiUpper
is_ascii_lowercase(c) == c \in AsciiLower
is_ascii_digit(c) == c \in AsciiDigit
\* char::is_alphanumeric: the letters and digits of Unicode
is_alphanumeric(c) == c \in AsciiUpper \cup AsciiLower \cup AsciiDigit \cup {"e_acute"}

min_password_len == 8
max_password_len == 128

\* validation::validate_password
validate_password(password) ==
    LET has(class(_)) == \E i \in 1..Len(password) : class(password[i])
        special(c) == /\ ~is_ascii_uppercase(c)
                      /\ ~is_ascii_lowercase(c)
                      /\ ~is_ascii_digit(c)
                      /\ ~is_alphanumeric(c)
    IN  IF password = << >> THEN Err("Password is required")
        ELSE IF str_len(password) < min_password_len
        THEN Err("Password must be at least 8 characters long")
        ELSE IF str_len(password) > max_password_len
        THEN Err("Password must be at most 128 characters long")
        ELSE IF ~has(is_ascii_uppercase)
        THEN Err("Password must contain at least one uppercase letter")
        ELSE IF ~has(is_ascii_lowercase)
        THEN Err("Password must contain at least one lowercase letter")
        ELSE IF ~has(is_ascii_digit)
        THEN Err("Password must contain at least one digit")
        ELSE IF ~has(special)
        THEN Err("Password must contain at least one special character")
        ELSE Ok("valid")

\* The characters a password is typed from, in the order they are typed in:
\* the policy looks at which characters there are, not at where they stand.
MaxTyped == 9
PasswordChars == <<"A", "a", "1", "!", "e_acute", "euro">>
Rank(c) == CHOOSE i \in 1..Len(PasswordChars) : PasswordChars[i] = c

\* Runs of "a" that bring a typed password to the upper limit and past it.
Paddings == {max_password_len - MaxTyped, max_password_len - MaxTyped + 1}

TypeChar(c) ==
    /\ Len(text) < MaxTyped
    /\ IF text = << >> THEN TRUE ELSE Rank(c) >= Rank(text[Len(text)])
    /\ text' = Append(text, c)
    /\ verdict' = None
    /\ UNCHANGED <<now, rl_vars, jwt_vars, ep_vars, conc_vars, oauth_vars,
                   accounts, rg, aux_vars, cfg_vars, media_vars, login_vars>>

PastePadding(n) ==
    /\ Len(text) <= MaxTyped
    /\ text' = text \o [i \in 1..n |-> "a"]
    /\ verdict' = None
    /\ UNCHANGED <<now, rl_vars, jwt_vars, ep_vars, conc_vars, oauth_vars,
                   accounts, rg, aux_vars, cfg_vars, media_vars, login_vars>>

ValidatePassword ==
    /\ verdict = None
    /\ verdict' = Some(validate_password(text))
    /\ UNCHANGED <<now, rl_vars, jwt_vars, ep_vars, conc_vars, oauth_vars,
                   accounts, rg, text, aux_vars, cfg_vars, media_vars, login_vars>>

PasswordNext ==
    \/ \E i \in 1..Len(PasswordChars) : TypeChar(PasswordChars[i])
    \/ \E n \in Paddings : PastePadding(n)
    \/ ValidatePassword

SpecPassword == Init /\ [][PasswordNext]_vars

\* C22: validate_password returns Ok exactly for the passwords of 8 to 128
\* characters that hold an uppercase letter, a lowercase letter, a digit and a
\* character that is neither letter nor digit.
C22_PasswordPolicy ==
    IsSome(verdict) =>
        (Unwrap(verdict).ok <=>
            /\ char_count(text) >= min_password_len
            /\ char_count(text) <= max_password_len
            /\ \E i \in 1..Len(text) : is_ascii_uppercase(text[i])
            /\ \E i \in 1..Len(text) : is_ascii_lowercase(text[i])
            /\ \E i \in 1..Len(text) : is_ascii_digit(text[i])
            /\ \E i \in 1..Len(text) : ~is_alphanumeric(text[i]))

(***************************************************************************)
(* Registration                                                            *)
(***************************************************************************)

min_username_len == 3
max_username_len == 32
max_email_len == 254

AsciiLetters == AsciiUpper \cup AsciiLower
AsciiWord == AsciiLetters \cup AsciiDigit

\* Regex ^[a-zA-Z0-9_]+$
username_regex(s) == s # << >> /\ \A i \in 1..Len(s) : s[i] \in AsciiWord \cup {"_"}

\* Regex ^[a-zA-Z0-9._%+-]+@[a-zA-Z0-9.-]+\.[a-zA-Z]{2,}$
email_regex(s) ==
    \E i, j \in 1..Len(s) :
        /\ i > 1 /\ s[i] = "@"
        /\ \A k \in 1..(i - 1) : s[k] \in AsciiWord \cup {".", "_", "%", "+", "-"}
        /\ j > i + 1 /\ s[j] = "."
        /\ \A k \in (i + 1)..(j - 1) : s[k] \in AsciiWord \cup {".", "-"}
        /\ Len(s) >= j + 2
        /\ \A k \in (j + 1)..Len(s) : s[k] \in AsciiLetters

\* validation::validate_username
validate_username(username) ==
    IF username = << >> THEN Err("Username is required")
    ELSE IF str_len(username) < min_username_len
    THEN Err("Username must be at least 3 characters long")
    ELSE IF str_len(username) > max_username_len
    THEN Err("Username must be at most 32 characters long")
    ELSE IF ~username_regex(username)
    THEN Err("Username can only contain letters, numbers, and underscores")
    ELSE Ok("valid")

\* validation::validate_email
validate_email(email) ==
    IF email = << >> THEN Err("Email is required")
    ELSE IF str_len(email) > max_email_len
    THEN Err("Email must be at most 254 characters long")
    ELSE IF ~email_regex(email) THEN Err("Invalid email format")
    ELSE Ok("valid")

\* RegisterRequest { username, email, password }
RegisterRequests ==
    [username : {<<"a", "b", "c">>, <<"b", "_", "1">>, <<"a", "b">>},
     email : {<<"a", "@", "b", ".", "a", "b">>, <<"c", "@", "b", ".", "a", "b">>,
              <<"a", "@", "b">>},
     password : {<<"A", "a", "1", "!", "a", "b", "c", "a">>, <<"a", "b", "c">>}]

\* register: "Validate input"
validate_input(payload) ==
    LET u == validate_username(payload.username)
        e == validate_email(payload.email)
        w == validate_password(payload.password)
    IN  IF ~u.ok THEN u ELSE IF ~e.ok THEN e ELSE w

RgFree(p) == rg[p].stage \in {"idle", "done"}
RgAnswer(r, status) == [r EXCEPT !.stage = "done", !.status = status]

\* The username or the email of the request is that of a row of the table.
Taken(rows, payload) ==
    \E row \in rows : row.username = payload.username \/ row.email = payload.email

\* POST /register up to the answer of the lookup by username.
RegisterBegin(p, payload) ==
    LET r == [NoRegistration EXCEPT
                !.payload = Some(payload),
                !.taken = validate_input(payload).ok /\ Taken(accounts, payload)]
    IN  /\ RgFree(p)
        /\ rg' = [rg EXCEPT ![p] =
                    IF ~validate_input(payload).ok THEN RgAnswer(r, "BadRequest")
                    ELSE IF find_by_username_or_email(accounts, payload.username) # {}
                    THEN RgAnswer(r, "BadRequest")
                    ELSE [r EXCEPT !.stage = "find_email"]]
        /\ UNCHANGED <<now, rl_vars, jwt_vars, ep_vars, conc_vars, oauth_vars,
                       accounts, text, verdict, aux_vars, cfg_vars, media_vars, login_vars>>

\* POST /register: the lookup by email.
RegisterFindEmail(p) ==
    LET r == rg[p]
    IN  /\ r.stage = "find_email"
        /\ rg' = [rg EXCEPT ![p] =
                    IF find_by_username_or_email(accounts, Unwrap(r.payload).email) # {}
                    THEN RgAnswer(r, "BadRequest")
                    ELSE [r EXCEPT !.stage = "create"]]
        /\ UNCHANGED <<now, rl_vars, jwt_vars, ep_vars, conc_vars, oauth_vars,
                       accounts, text, verdict, aux_vars, cfg_vars, media_vars, login_vars>>

\* POST /register to its end: the INSERT and the response. Whether the table
\* has unique indexes on username and email is not in the sources: an INSERT
\* of a name that is there by now goes through or is refused.
RegisterCreate(p, unique) ==
    LET r == rg[p]
        payload == Unwrap(r.payload)
    IN  /\ r.stage = "create"
        /\ Cardinality(accounts) < MaxAccounts
        /\ IF unique /\ Taken(accounts, payload)
           THEN /\ accounts' = accounts
                /\ rg' = [rg EXCEPT ![p] = RgAnswer(r, "InternalServerError")]
           ELSE /\ accounts' = create(accounts, RowIds[Cardinality(accounts) + 1],
                                      payload.username, payload.email, payload.password)
                /\ rg' = [rg EXCEPT ![p] = RgAnswer([r EXCEPT !.created = TRUE], "Created")]
        /\ UNCHANGED <<now, rl_vars, jwt_vars, ep_vars, conc_vars, oauth_vars,
                       text, verdict, aux_vars, cfg_vars, media_vars, login_vars>>

RegisterNext ==
    \/ \E p \in Procs, payload \in RegisterRequests : RegisterBegin(p, payload)
    \/ \E p \in Procs : RegisterFindEmail(p)
    \/ \E p \in Procs, unique \in BOOLEAN : RegisterCreate(p, unique)

SpecRegister == Init /\ [][RegisterNext]_vars

\* C21: a registration whose username or email belongs to an account that is
\* there when it arrives is answered with the Conflict kind, not with the
\* BadRequest kind of a validation failure, and creates no account.
C21_DuplicateIsConflict ==
    \A p \in Procs :
        (rg[p].stage = "done" /\ rg[p].taken)
            => rg[p].status = "Conflict" /\ ~rg[p].created

(***************************************************************************)
(* The endpoints while the store or the users table is out of reach        *)
(***************************************************************************)

\* RedisPool::get when get_connection fails.
redis_get_unreachable == Err("connection refused")

\* The blacklist lookup with its failure taken for "not blacklisted".
blacklist_lookup_lenient(looked_up) == IF looked_up.ok THEN looked_up ELSE Ok(FALSE)

\* refresh_token and auth_middleware: `.map_err(...)?` on is_token_blacklisted.
blacklist_lookup(looked_up) == looked_up

\* POST /refresh with a token that passes validation, the blacklist lookup
\* failing.
RefreshLookupDown(p, token) ==
    LET v == validate_token(token, now)
        k == IF v.ok THEN refresh_kind_check(v.val) ELSE v
        r == [Request("refresh", Some(token)) EXCEPT !.fault = "is_token_blacklisted"]
        b == blacklist_lookup(redis_get_unreachable)
    IN  /\ Free(p)
        /\ Cardinality(issued) <= MaxSigned
        /\ v.ok /\ k.ok
        /\ IF ~b.ok THEN Serve(p, Answer(r, "InternalServerError"))
           ELSE IF b.val THEN Serve(p, Answer(r, "Unauthorized"))
           ELSE Serve(p, Await(r, "refresh_rotate"))
        /\ UNCHANGED <<now, rl_vars, jwt_vars, known, revoked, logged_out, conc_vars,
                       oauth_vars, acct_vars, aux_vars, cfg_vars, media_vars, login_vars>>

\* auth_middleware with a token that passes validation, the blacklist lookup
\* failing.
AuthMiddlewareLookupDown(p, header) ==
    LET h == bearer(header)
        r == [Request("auth_middleware", IF h.ok THEN Some(h.val) ELSE None)
                EXCEPT !.fault = "is_token_blacklisted"]
        b == blacklist_lookup(redis_get_unreachable)
    IN  /\ Free(p)
        /\ h.ok
        /\ validate_token(h.val, now).ok
        /\ IF ~b.ok THEN Serve(p, Answer(r, "InternalServerError"))
           ELSE IF b.val THEN Serve(p, Answer(r, "Unauthorized"))
           ELSE Serve(p, Answer(r, "OK"))
        /\ UNCHANGED <<now, rl_vars, jwt_vars, known, revoked, logged_out, conc_vars,
                       oauth_vars, acct_vars, aux_vars, cfg_vars, media_vars, login_vars>>

\* The queries of login that can fail.
LoginQueries == {"find_by_username_or_email", "verify_password"}

\* POST /login, username and password given, with the user lookup or the
\* password verification failing.
LoginRepositoryDown(p, failing) ==
    LET r == [Request("login", None) EXCEPT !.fault = failing]
    IN  /\ Free(p)
        /\ Serve(p, Answer(r, "InternalServerError"))
        /\ UNCHANGED <<now, rl_vars, jwt_vars, known, revoked, logged_out, conc_vars,
                       oauth_vars, acct_vars, aux_vars, cfg_vars, media_vars, login_vars>>

\* POST /refresh from the blacklist lookup on, the blacklist write of the
\* rotation failing: the new access token is signed by then.
RefreshRotateDown(p) ==
    LET r == pc[p]
        user == ClaimsOf(Unwrap(r.token)).sub
        access_token == generate_access_token(user, << >>, now)
    IN  /\ r.stage = "refresh_rotate"
        /\ issued' = issued \cup {Signed(access_token, "Access", user, << >>)}
        /\ Proceed(p, Answer([r EXCEPT !.minted = <<access_token>>],
                             "InternalServerError"))
        /\ UNCHANGED <<now, rl_vars, store, call, bl_until, lapsed, rotated, known,
                       revoked, logged_out, conc_vars, oauth_vars, acct_vars, aux_vars, cfg_vars, media_vars, login_vars>>

\* POST /refresh to its end, the session write failing.
RefreshSessionDown(p) ==
    LET r == pc[p]
    IN  /\ r.stage = "refresh_session"
        /\ Proceed(p, Answer(r, "InternalServerError"))
        /\ UNCHANGED <<now, rl_vars, jwt_vars, known, revoked, logged_out, conc_vars,
                       oauth_vars, acct_vars, aux_vars, cfg_vars, media_vars, login_vars>>

\* The serial endpoints with the lookups failing now and then.
FaultNext ==
    \/ SerialNext
    \/ \E token \in Holdable : RefreshLookupDown("p1", token)
    \/ \E token \in Holdable : \E header \in Headers(token) :
            AuthMiddlewareLookupDown("p1", header)
    \/ \E failing \in LoginQueries : LoginRepositoryDown("p1", failing)

SpecFault == Init /\ [][FaultNext]_vars

\* The serial endpoints with the writes of a refresh failing now and then.
CrashNext ==
    \/ SerialNext
    \/ RefreshRotateDown("p1")
    \/ RefreshSessionDown("p1")

SpecCrash == Init /\ [][CrashNext]_vars

\* C23: a check that fails is never an allow. A refresh request or a bearer
\* check whose blacklist lookup fails, and a login whose user lookup or
\* password verification fails, is answered with an error at once; it gets no
\* token, and nothing is signed or written to the store for it.
C23_FailedCheckRejects ==
    [][\A p \in Procs :
        (pc'[p].fault # "" /\ pc'[p] # pc[p])
            => /\ pc'[p].stage = "done"
               /\ pc'[p].status = "InternalServerError"
               /\ pc'[p].minted = << >>
               /\ store' = store
               /\ issued' = issued
               /\ known' = known]_vars

\* A refresh token that is valid and not blacklisted has been refused because
\* the blacklist could not be read.
C23_Witness ==
    \E p \in Procs :
        /\ Answered(p, "refresh")
        /\ pc[p].fault = "is_token_blacklisted"
        /\ pc[p].status = "InternalServerError"
        /\ validate_token(Unwrap(pc[p].token), now).ok
        /\ ~is_token_blacklisted(store, Unwrap(pc[p].token), now)

(***************************************************************************)
(* RedisPool: set, get and delete called one at a time                     *)
(***************************************************************************)

\* The keys and the values of the calls, and the TTLs: none, or 0 to MaxTtl.
StoreKeys == {session_key(u) : u \in Users}
StoreValues == {"test_value", "integration_test_value"}
StoreTtls == {None} \cup {Some(n) : n \in 0..MaxTtl}

\* The call just answered.
StoreCalled(op, key, result) ==
    Some([op |-> op, key |-> key, at |-> now, result |-> result])

StoreSet(key, value, ttl_seconds) ==
    LET r == redis_set(store, key, value, ttl_seconds, now)
    IN  /\ store' = r.store
        /\ call' = StoreCalled("set", key, r.result)
        /\ expect' = IF r.result.ok
                     THEN Put(expect, key,
                              Some([value |-> value,
                                    until |-> IF IsSome(ttl_seconds)
                                              THEN Some(now + Unwrap(ttl_seconds))
                                              ELSE None]))
                     ELSE expect
        /\ UNCHANGED <<now, rl_vars, ep_vars, conc_vars, oauth_vars, acct_vars,
                       issued, bl_until, lapsed, rotated, lineage, ended, cfg_vars, media_vars, login_vars>>

StoreGet(key) ==
    /\ call' = StoreCalled("get", key, Ok(redis_get(store, key, now)))
    /\ UNCHANGED <<now, rl_vars, ep_vars, conc_vars, oauth_vars, acct_vars,
                   store, issued, bl_until, lapsed, rotated, aux_vars, cfg_vars, media_vars, login_vars>>

StoreDelete(key) ==
    /\ store' = redis_delete(store, key)
    /\ call' = StoreCalled("delete", key, Ok("OK"))
    /\ expect' = Put(expect, key, None)
    /\ UNCHANGED <<now, rl_vars, ep_vars, conc_vars, oauth_vars, acct_vars,
                   issued, bl_until, lapsed, rotated, lineage, ended, cfg_vars, media_vars, login_vars>>

StoreNext ==
    \/ \E key \in StoreKeys, value \in StoreValues, ttl_seconds \in StoreTtls :
            StoreSet(key, value, ttl_seconds)
    \/ \E key \in StoreKeys : StoreGet(key)
    \/ \E key \in StoreKeys : StoreDelete(key)
    \/ RevTick

SpecStore == Init /\ [][StoreNext]_vars

\* C24: a get(k) answers Some(v) when the last write of k was a set(k, v, ttl)
\* whose TTL has not run out, and None when it was a delete(k).
C24_SetGetDelete ==
    (IsSome(call) /\ Unwrap(call).op = "get" /\ Unwrap(call).key \in DOMAIN expect) =>
        LET c == Unwrap(call)
            e == expect[c.key]
        IN  IF e = None THEN c.result.val = None
            ELSE (Unwrap(e).until = None \/ c.at < Unwrap(Unwrap(e).until))
                    => c.result.val = Some(Unwrap(e).value)

\* A get has answered with the value set a while before, its TTL still
\* running.
C24_Witness ==
    /\ IsSome(call)
    /\ Unwrap(call).op = "get"
    /\ Unwrap(call).key \in DOMAIN expect
    /\ IsSome(expect[Unwrap(call).key])
    /\ IsSome(Unwrap(expect[Unwrap(call).key]).until)
    /\ Unwrap(call).at > 0
    /\ Unwrap(call).at < Unwrap(Unwrap(expect[Unwrap(call).key]).until)
    /\ Unwrap(call).result.val = Some(Unwrap(expect[Unwrap(call).key]).value)

\* C25: within a refresh request the old token is validated, then
\* blacklisted, then the new tokens are issued, then the session is updated,
\* each step only after the one before has succeeded: no token has been
\* signed for a request that has not blacklisted the token it presented, and
\* a request that has reached the session write has both its tokens.
C25_RefreshStepOrder ==
    \A p \in Procs :
        pc[p].op = "refresh" =>
            /\ pc[p].minted # << >> => Unwrap(pc[p].token) \in revoked
            /\ (pc[p].stage = "refresh_session" \/ pc[p].status = "OK")
                    => Len(pc[p].minted) = 2

\* A refresh request presenting the token now would have it rotated: it
\* validates, is of the Refresh kind, is not blacklisted, and the rotation
\* goes through.
Redeemable(token) ==
    LET v == validate_token(token, now)
    IN  /\ v.ok
        /\ refresh_kind_check(v.val).ok
        /\ ~is_token_blacklisted(store, token, now)
        /\ rotate_refresh_token(store, v.val.sub, token, now).result.ok

\* C26: refresh fails closed. Wherever a refresh request has stopped, after
\* whichever step and for whatever failure, an old refresh token and the new
\* one issued from it are never both redeemable.
C26_NeverTwoLiveTokens ==
    \A pair \in lineage : ~(Redeemable(pair[1]) /\ Redeemable(pair[2]))

\* A refresh has stopped at its session write, the new refresh token signed:
\* the new token is redeemable, the old one is blacklisted.
C26_Witness ==
    \E p \in Procs :
        /\ Answered(p, "refresh")
        /\ pc[p].status = "InternalServerError"
        /\ Len(pc[p].minted) = 2
        /\ <<Unwrap(pc[p].token), pc[p].minted[2]>> \in lineage
        /\ Redeemable(pc[p].minted[2])
        /\ is_token_blacklisted(store, Unwrap(pc[p].token), now)

\* C27: a token that rotation or logout blacklists gets an entry whose TTL is
\* exp - now, so that the entry ends with the token; and the blacklist write
\* succeeds for every token that passed validation: no logout, and no refresh
\* whose token is valid, is answered InternalServerError while the store is
\* up.
C27_BlacklistTtl ==
    /\ \A token \in DOMAIN store.blacklisted_token :
            store.blacklisted_token[token].expires_at = Some(ClaimsOf(token).exp)
    /\ \A p \in Procs :
            ~(/\ Answered(p, "logout")
              /\ pc[p].status = "InternalServerError")
    /\ \A p \in Procs :
            ~(/\ Answered(p, "refresh")
              /\ pc[p].status = "InternalServerError"
              /\ Len(pc[p].minted) = 1
              /\ validate_token(Unwrap(pc[p].token), now).ok)

\* C28: a callback whose state value has no live handshake record behind it
\* (none was ever issued under it, a callback has consumed it, or it is older
\* than the 300 s of its TTL) is answered BadRequest; it sends no code to the
\* provider, creates no account, signs no token and writes nothing to the
\* store.
C28_DeadHandshakeRejected ==
    [][\A p \in Procs :
            (cb'[p].dead # "" /\ cb'[p] # cb[p]) =>
                /\ cb'[p].stage = "done"
                /\ cb'[p].status = "BadRequest"
                /\ cb'[p].user = None
                /\ cb'[p].minted = << >>
                /\ UNCHANGED <<store, accounts, issued, known, handshakes>>]_vars

\* A callback with a code and the state value of a handshake that nobody has
\* consumed, arriving more than 300 s after the authorization, answered
\* BadRequest.
C28_Witness ==
    \E p \in Procs :
        /\ cb[p].stage = "done"
        /\ cb[p].complete
        /\ cb[p].dead = "expired"
        /\ cb[p].status = "BadRequest"
        /\ handshakes[Unwrap(cb[p].state)].takers = 0
        /\ now > handshakes[Unwrap(cb[p].state)].created_at + handshake_ttl

(***************************************************************************)
(* The callback while the store is out of reach                            *)
(***************************************************************************)

\* RedisPool::delete when get_connection fails: nothing is removed.
redis_delete_unreachable == Err("connection refused")

\* The removal of the handshake with its failure passed over.
handshake_removed_anyway(deleted) == IF deleted.ok THEN deleted ELSE Ok("OK")

\* oauth_callback: `.map_err(...)?` on redis_pool.delete(&session_key).
handshake_removed(deleted) == deleted

\* oauth_callback with the handshake in hand, its removal failing.
CallbackDeleteDown(p) ==
    LET r == [cb[p] EXCEPT !.fault = "delete"]
        d == handshake_removed(redis_delete_unreachable)
    IN  /\ cb[p].stage = "delete"
        /\ IF ~d.ok
           THEN /\ cb' = [cb EXCEPT ![p] = CbAnswer(r, "InternalServerError")]
                /\ handshakes' = handshakes
           ELSE IF IsSome(oauth_client(Unwrap(r.session).provider))
           THEN /\ cb' = [cb EXCEPT ![p] = [r EXCEPT !.stage = "exchange"]]
                /\ handshakes' = [handshakes EXCEPT ![Unwrap(r.state)].takers = @ + 1]
           ELSE /\ cb' = [cb EXCEPT ![p] = CbAnswer(r, "InternalServerError")]
                /\ handshakes' = handshakes
        /\ UNCHANGED <<now, rl_vars, jwt_vars, ep_vars, conc_vars, acct_vars, aux_vars, cfg_vars, media_vars, login_vars>>

\* The callbacks on one connection, the store failing at any removal.
OAuthFaultNext ==
    \/ OAuthSerialNext
    \/ CallbackDeleteDown("p1")

SpecOAuthFault == Init /\ [][OAuthFaultNext]_vars

\* The handshake record of csrf token c is in the store.
Stored(c) == c \in DOMAIN store.oauth_session

\* C29: a callback that has retrieved a handshake record sends the code to
\* the provider only after the record has been deleted from the store: no
\* handshake that a callback went to the provider with is in the store, and
\* a callback whose delete failed is answered InternalServerError without
\* any code exchange.
C29_DeleteBeforeExchange ==
    /\ \A c \in DOMAIN handshakes : handshakes[c].takers > 0 => ~Stored(c)
    /\ \A p \in Procs :
            cb[p].stage \in {"exchange", "session"} => ~Stored(Unwrap(cb[p].state))
    /\ \A p \in Procs :
            (cb[p].fault = "delete" /\ cb[p].stage # "delete") =>
                /\ cb[p].stage = "done"
                /\ cb[p].status = "InternalServerError"
                /\ cb[p].user = None
                /\ cb[p].minted = << >>
                /\ handshakes[Unwrap(cb[p].state)].takers = 0

\* A callback answered InternalServerError at the failed delete, its
\* handshake still in the store and never taken to the provider, after an
\* earlier callback had deleted its own handshake, within the 300 s, and
\* gone through the code exchange.
C29_Witness ==
    \E p \in Procs, c \in DOMAIN handshakes :
        /\ cb[p].stage = "done"
        /\ cb[p].fault = "delete"
        /\ cb[p].status = "InternalServerError"
        /\ Stored(Unwrap(cb[p].state))
        /\ handshakes[Unwrap(cb[p].state)].takers = 0
        /\ handshakes[c].takers = 1
        /\ handshakes[c].outcomes # {}
        /\ ~Stored(c)
        /\ now < handshakes[c].created_at + handshake_ttl

(***************************************************************************)
(* The lifetimes as configured: JwtConfig::from_env and the exp claim      *)
(***************************************************************************)

\* "900" and "604800": the lifetimes when the variable is unset or does not
\* parse.
default_access_token_expiry == 900
default_refresh_token_expiry == 604800

Digits == <<"0", "1", "2", "3", "4", "5", "6", "7", "8", "9">>
digit_value(c) == (CHOOSE i \in 1..Len(Digits) : Digits[i] = c) - 1
is_digit(c) == \E i \in 1..Len(Digits) : Digits[i] = c

\* acc * 10 + d on u64, None when it passes 2^64 (checked_mul, checked_add).
push_digit(acc, d) ==
    LET c4 == acc[4] * 10 + d
        c3 == acc[3] * 10 + (c4 \div Limb)
        c2 == acc[2] * 10 + (c3 \div Limb)
        c1 == acc[1] * 10 + (c2 \div Limb)
    IN  IF c1 \div Limb > 0 THEN None
        ELSE Some(<<c1 % Limb, c2 % Limb, c3 % Limb, c4 % Limb>>)

RECURSIVE parse_digits(_, _)
parse_digits(acc, s) ==
    IF s = << >> THEN Ok(acc)
    ELSE IF ~is_digit(Head(s)) THEN Err("InvalidDigit")
    ELSE LET next == push_digit(acc, digit_value(Head(s)))
         IN  IF ~IsSome(next) THEN Err("PosOverflow")
             ELSE parse_digits(Unwrap(next), Tail(s))

\* str::parse::<u64>: decimal digits after an optional "+".
parse(s) ==
    IF s = << >> THEN Err("Empty")
    ELSE LET digits == IF Head(s) = "+" THEN Tail(s) ELSE s
         IN  IF digits = << >> THEN Err("InvalidDigit")
             ELSE parse_digits(U64(0), digits)

\* std::env::var(..).unwrap_or_else(|_| default_text).parse().unwrap_or(default)
expiry_from_env(var, default_text, default) ==
    LET r == parse(IF IsSome(var) THEN Unwrap(var) ELSE default_text)
    IN  IF r.ok THEN r.val ELSE U64(default)

\* JwtConfig::from_env, the two lifetimes.
from_env(env) ==
    [access_token_expiry |->
        expiry_from_env(env.JWT_ACCESS_TOKEN_EXPIRY, <<"9", "0", "0">>,
                        default_access_token_expiry),
     refresh_token_expiry |->
        expiry_from_env(env.JWT_REFRESH_TOKEN_EXPIRY, <<"6", "0", "4", "8", "0", "0">>,
                        default_refresh_token_expiry)]

\* The values the two variables are set to: unset, 0, 1, a number of
\* seconds, not a number, a negative number, u64::MAX and u64::MAX + 1.
EnvValues ==
    {None, Some(<<"0">>), Some(<<"1">>), Some(<<"+", "6", "0">>),
     Some(<<"1", "5", "m">>), Some(<<"-", "1">>),
     Some(<<"1", "8", "4", "4", "6", "7", "4", "4", "0", "7",
            "3", "7", "0", "9", "5", "5", "1", "6", "1", "5">>),
     Some(<<"1", "8", "4", "4", "6", "7", "4", "4", "0", "7",
            "3", "7", "0", "9", "5", "5", "1", "6", "1", "6">>)}
Envs == [JWT_ACCESS_TOKEN_EXPIRY : EnvValues, JWT_REFRESH_TOKEN_EXPIRY : EnvValues]

\* generate_access_token / generate_refresh_token: the iat and exp claims of
\* the token of kind token_type signed at second t.
claims_times(cfg, token_type, t, overflow_checks) ==
    LET expiry == IF token_type = "Access" THEN cfg.access_token_expiry
                  ELSE cfg.refresh_token_expiry
        exp == add(U64(t), expiry, overflow_checks)
    IN  IF exp.ok THEN Ok([iat |-> U64(t), exp |-> exp.val, token_type |-> token_type])
        ELSE exp

\* The service is started with the environment env.
FromEnv(env) ==
    /\ config' = from_env(env)
    /\ call' = None
    /\ UNCHANGED <<now, rl_vars, store, issued, bl_until, lapsed, rotated, ep_vars,
                   conc_vars, oauth_vars, acct_vars, aux_vars, media_vars, login_vars>>

\* generate_access_token or generate_refresh_token under the configured
\* lifetimes, in a build with or without overflow checks.
GenerateConfigured(token_type, overflow_checks) ==
    /\ call' = Some([op |-> "generate", token_type |-> token_type, at |-> now,
                     expiry |-> IF token_type = "Access" THEN config.access_token_expiry
                                ELSE config.refresh_token_expiry,
                     result |-> claims_times(config, token_type, now, overflow_checks)])
    /\ UNCHANGED <<now, rl_vars, store, issued, bl_until, lapsed, rotated, ep_vars,
                   conc_vars, oauth_vars, acct_vars, aux_vars, cfg_vars, media_vars, login_vars>>

\* SystemTime::now() moves on.
ConfigTick ==
    /\ \E t \in Instants : t > now /\ now' = t
    /\ call' = None
    /\ UNCHANGED <<rl_vars, store, issued, bl_until, lapsed, rotated, ep_vars,
                   conc_vars, oauth_vars, acct_vars, aux_vars, cfg_vars, media_vars, login_vars>>

ConfigNext ==
    \/ \E env \in Envs : FromEnv(env)
    \/ \E token_type \in {"Access", "Refresh"}, overflow_checks \in BOOLEAN :
            GenerateConfigured(token_type, overflow_checks)
    \/ ConfigTick

SpecConfig == Init /\ [][ConfigNext]_vars

\* C30: every token that generate_access_token or generate_refresh_token
\* issues has iat = now and exp = iat + the configured lifetime of its kind,
\* the sum staying below 2^64, and exp > iat, whatever lifetime is
\* configured.
C30_ExpAfterIat ==
    (IsSome(call) /\ Unwrap(call).op = "generate" /\ Unwrap(call).result.ok) =>
        LET c == Unwrap(call)
            claims == c.result.val
            sum == overflowing_add(U64(c.at), c.expiry)
        IN  /\ claims.iat = U64(c.at)
            /\ ~sum.overflow
            /\ claims.exp = sum.sum
            /\ u64_lt(claims.iat, claims.exp)

\* C31: the permissions claim of an access token is the union of the
\* permission keys of the given roles, as a set: every key of every role is
\* in it, nothing else is, and no key is in it twice even when several roles
\* share it; the roles claim lists the names of the roles in the given order.
C31_PermissionsAreUnion ==
    \A i \in issued :
        i.kind = "Access" =>
            LET claims == ClaimsOf(i.token)
                keys == UNION {{i.roles[j].permissions[k] :
                                    k \in 1..Len(i.roles[j].permissions)} :
                               j \in 1..Len(i.roles)}
            IN  /\ {claims.permissions[j] : j \in 1..Len(claims.permissions)} = keys
                /\ Len(claims.permissions) = Cardinality(keys)
                /\ claims.roles = [j \in 1..Len(i.roles) |-> i.roles[j].name]

(***************************************************************************)
(* The media service: S3Poller::process_objects                            *)
(***************************************************************************)

\* "let max_retries = 3;"
max_retries == 3

\* The objects of one call: at most MaxObjects of them, the same key
\* possibly twice.
MaxObjects == 3
ObjectKeys == {"a.mp4", "b.mp4"}
ObjectLists == UNION {[1..n -> ObjectKeys] : n \in 0..MaxObjects}

\* The condition of the retry loop with the success flag left out.
retry_loop_blind(retry_count, success) == retry_count < max_retries

\* "while retry_count < max_retries && !success"
retry_loop(retry_count, success) == retry_count < max_retries /\ ~success

\* "Duration::from_secs(2u64.pow(retry_count as u32))"
backoff(retry_count) == 2 ^ retry_count

\* process_objects is called with a list of objects.
ProcessObjects(objects) ==
    /\ poller.stage \in {"idle", "done"}
    /\ poller' = [NoPoll EXCEPT !.stage = "loop", !.objects = objects, !.i = 1,
                                !.attempts = [j \in 1..Len(objects) |-> 0],
                                !.done_at = [j \in 1..Len(objects) |-> 0]]
    /\ UNCHANGED <<now, rl_vars, jwt_vars, ep_vars, conc_vars, oauth_vars, acct_vars,
                   aux_vars, cfg_vars, login_vars>>

\* One turn of the retry loop: process_single_object returns Ok or Err.
ProcessSingleObject(ok) ==
    LET i == poller.i
        tried == [poller EXCEPT !.attempts[i] = @ + 1]
    IN  /\ poller.stage = "loop"
        /\ i <= Len(poller.objects)
        /\ retry_loop(poller.retry_count, poller.success)
        /\ poller' =
            IF ok
            THEN [tried EXCEPT !.success = TRUE,
                               !.done_at[i] = IF @ = 0 THEN tried.attempts[i] ELSE @]
            ELSE [tried EXCEPT !.retry_count = @ + 1,
                               !.stage = IF poller.retry_count + 1 < max_retries
                                         THEN "sleep" ELSE "loop"]
        /\ UNCHANGED <<now, rl_vars, jwt_vars, ep_vars, conc_vars, oauth_vars, acct_vars,
                       aux_vars, cfg_vars, login_vars>>

\* "sleep(delay).await"
Backoff ==
    /\ poller.stage = "sleep"
    /\ poller' = [poller EXCEPT !.stage = "loop",
                                !.slept = @ + backoff(poller.retry_count)]
    /\ UNCHANGED <<now, rl_vars, jwt_vars, ep_vars, conc_vars, oauth_vars, acct_vars,
                   aux_vars, cfg_vars, login_vars>>

\* The retry loop is left, "if !success { error!(..) }", and the for loop
\* takes the next object.
NextObject ==
    /\ poller.stage = "loop"
    /\ poller.i <= Len(poller.objects)
    /\ ~retry_loop(poller.retry_count, poller.success)
    /\ poller' = [poller EXCEPT !.i = @ + 1, !.retry_count = 0, !.success = FALSE,
                                !.slept = 0]
    /\ UNCHANGED <<now, rl_vars, jwt_vars, ep_vars, conc_vars, oauth_vars, acct_vars,
                   aux_vars, cfg_vars, login_vars>>

\* "Ok(())" after the last object.
ProcessObjectsReturn ==
    /\ poller.stage = "loop"
    /\ poller.i > Len(poller.objects)
    /\ poller' = [poller EXCEPT !.stage = "done", !.result = Some(Ok("()"))]
    /\ UNCHANGED <<now, rl_vars, jwt_vars, ep_vars, conc_vars, oauth_vars, acct_vars,
                   aux_vars, cfg_vars, login_vars>>

\* The steps of a call in progress.
PollerStep ==
    \/ \E ok \in BOOLEAN : ProcessSingleObject(ok)
    \/ Backoff
    \/ NextObject
    \/ ProcessObjectsReturn

PollerNext ==
    \/ \E objects \in ObjectLists : ProcessObjects(objects)
    \/ PollerStep

\* The runtime keeps polling the task, and every await in it returns.
SpecPoller == Init /\ [][PollerNext]_vars /\ WF_vars(PollerStep)

\* C32: process_objects attempts each object at most 3 times and never again
\* after an attempt that succeeded; an object that has used up its attempts
\* does not stop the call, which goes on to the remaining objects and returns
\* Ok; and the call returns for every list of objects.
C32_BoundedRetries ==
    /\ [](\A j \in 1..Len(poller.objects) :
            /\ poller.attempts[j] <= max_retries
            /\ poller.done_at[j] # 0 => poller.attempts[j] = poller.done_at[j])
    /\ [](poller.stage = "done" =>
            /\ poller.result = Some(Ok("()"))
            /\ \A j \in 1..Len(poller.objects) :
                    /\ poller.attempts[j] >= 1
                    /\ poller.done_at[j] = 0 => poller.attempts[j] = max_retries)
    /\ [](poller.stage = "loop" => <>(poller.stage = "done"))

\* A call that has returned Ok after its first object failed three times
\* and its second succeeded at the second attempt.
C32_Witness ==
    /\ poller.stage = "done"
    /\ poller.result = Some(Ok("()"))
    /\ Len(poller.objects) >= 2
    /\ poller.attempts[1] = max_retries
    /\ poller.done_at[1] = 0
    /\ poller.attempts[2] = 2
    /\ poller.done_at[2] = 2

\* C33: the refresh token that rotate_refresh_token returns is another token
\* string than the old token it has blacklisted, and it is not blacklisted
\* when it is returned, at whatever second the rotation takes place, the
\* second in which the old token was issued included.
C33_RotationReturnsFreshToken ==
    (/\ IsSome(call)
     /\ Unwrap(call).op = "rotate_refresh_token"
     /\ Unwrap(call).result.ok) =>
        /\ Unwrap(call).result.val # Unwrap(call).token
        /\ ~is_token_blacklisted(store, Unwrap(call).result.val, now)

\* C34: between the requests of any sequence of logins, refreshes and
\* logouts with the store up, whenever there is a session record for a user
\* the refresh token stored in it is not blacklisted.
C34_SessionTokenNotBlacklisted ==
    (\A p \in Procs : Free(p)) =>
        \A user \in Users :
            LET session == redis_get(store, session_key(user), now)
            IN  IsSome(session) => ~is_token_blacklisted(store, Unwrap(session), now)

(***************************************************************************)
(* One user logged in on two devices                                       *)
(***************************************************************************)

\* The logins of the two devices, the second of them a second after the
\* first at the latest.
MaxDevices == 2
MaxDeviceLoginAt == 1
MaxDeviceSigned == 5

\* The requests of the devices of one user, one after the other.
DevicesNext ==
    \/ \E cred \in Credentials : LoginUpTo("p1", "u1", cred, MaxDevices, MaxDeviceLoginAt)
    \/ \E token \in Holdable : RefreshBeginUpTo("p1", token, MaxDeviceSigned)
    \/ RefreshRotate("p1")
    \/ RefreshSession("p1")
    \/ \E token \in Holdable : LogoutBegin("p1", token)
    \/ LogoutDelete("p1")
    \/ Tick

SpecDevices == Init /\ [][DevicesNext]_vars

\* C35: once a logout presenting a refresh token of a user has been answered
\* OK, the refresh endpoint redeems none of the refresh tokens signed for
\* that user before the logout.
C35_LogoutEndsAllTokens ==
    \A p \in Procs :
        (Answered(p, "refresh") /\ Unwrap(pc[p].token) \in ended)
            => pc[p].status # "OK"

\* C36: the refresh endpoint redeems a refresh token only when it is the
\* token in the session record of its subject: a request whose rotation goes
\* through presents the stored token, and a validly signed, unexpired, not
\* blacklisted token that a later login of the user has superseded is
\* rejected.
C36_RefreshOnlyCurrent ==
    [][\A p \in Procs :
            (/\ pc[p].op = "refresh"
             /\ pc[p].stage = "refresh_rotate"
             /\ pc'[p].stage = "refresh_session") =>
                redis_get(store, session_key(Subject(p)), now) = pc[p].token]_vars

(***************************************************************************)
(* Password login on the accounts of the users table                       *)
(***************************************************************************)

\* "payload.username_or_email.is_empty()" taken for never true.
is_empty_never(s) == FALSE

\* "payload.username_or_email.is_empty()", "payload.password.is_empty()"
is_empty(s) == s = << >>

\* The registration the password account of the table comes from.
Registrant ==
    [username |-> <<"a", "b", "c">>, email |-> <<"a", "@", "b", ".", "a", "b">>,
     password |-> <<"A", "a", "1", "!", "a", "b", "c", "a">>]

\* LoginRequest { username_or_email, password }: nothing, the emails of the
\* federated accounts, the username of one of them and of the registered
\* one; no password, the registered one, another one.
LoginRequests ==
    [username_or_email :
        {<< >>, Registrant.username, profile_username("google", "u1")}
            \cup {profile_email(user) : user \in Users},
     password : {<< >>, Registrant.password, <<"x">>}]

\* The accounts the callback created: their ids are those of the provider's
\* users, the registered ones have the ids of RowIds.
Federated(row) == row.id \in Users

\* POST /login against the users table, from the request to the response.
LoginAccount(payload) ==
    LET r == [NoLogin EXCEPT !.stage = "done", !.payload = Some(payload)]
        found == find_by_username_or_email(accounts, payload.username_or_email)
    IN  /\ IF is_empty(payload.username_or_email) \/ is_empty(payload.password)
           THEN /\ lg' = [r EXCEPT !.status = "BadRequest"]
                /\ UNCHANGED <<store, issued>>
           ELSE IF found = {}
           THEN /\ lg' = [r EXCEPT !.status = "Unauthorized"]
                /\ UNCHANGED <<store, issued>>
           ELSE \E user \in found :
                    LET access_token == generate_access_token(user.id, << >>, now)
                        refresh_token == generate_refresh_token(user.id, now)
                        s == redis_set(store, session_key(user.id), refresh_token,
                                       Some(refresh_token_expiry), now)
                    IN  IF ~verify_password(user, payload.password)
                        THEN /\ lg' = [r EXCEPT !.status = "Unauthorized",
                                                !.found = Some(user.id)]
                             /\ UNCHANGED <<store, issued>>
                        ELSE /\ issued' = issued \cup
                                    {Signed(access_token, "Access", user.id, << >>),
                                     Signed(refresh_token, "Refresh", user.id, << >>)}
                             /\ store' = s.store
                             /\ lg' = IF s.result.ok
                                      THEN [r EXCEPT !.status = "OK",
                                              !.found = Some(user.id),
                                              !.minted = <<access_token, refresh_token>>]
                                      ELSE [r EXCEPT !.status = "InternalServerError",
                                              !.found = Some(user.id)]
        /\ UNCHANGED <<now, rl_vars, call, bl_until, lapsed, rotated, ep_vars,
                       conc_vars, oauth_vars, acct_vars, aux_vars, cfg_vars, media_vars>>

\* Authorizations and callbacks with a code and a state, the registration of
\* one password account, and logins, one request after the other within one
\* second.
FederatedNext ==
    \/ oauth_authorize("google")
    \/ \E state \in CsrfTokens :
            CallbackBegin("p1", [error |-> None, code |-> Some("code"),
                                 state |-> Some(state)])
    \/ CallbackDelete("p1")
    \/ \E outcome \in Users : CallbackExchange("p1", outcome)
    \/ CallbackSession("p1")
    \/ RegisterBegin("p1", Registrant)
    \/ RegisterFindEmail("p1")
    \/ RegisterCreate("p1", TRUE)
    \/ \E payload \in LoginRequests : LoginAccount(payload)

SpecFederated == Init /\ [][FederatedNext]_vars

\* C37: an account the federated-login callback created, stored with the
\* hash of the empty password, is never authenticated by the password login:
\* whatever password a login naming it submits, the empty one included, the
\* login is not answered OK and gets no token.
C37_FederatedAccountNoPassword ==
    (/\ lg.stage = "done"
     /\ \E row \in accounts :
            /\ Federated(row)
            /\ Unwrap(lg.payload).username_or_email \in {row.username, row.email}) =>
        /\ lg.status \in {"BadRequest", "Unauthorized"}
        /\ lg.minted = << >>
        /\ is_empty(Unwrap(lg.payload).password) => lg.status = "BadRequest"

\* A login naming a federated account by its email with a password, answered
\* Unauthorized at the password check, after a login to the registered
\* account had gone through (its session record is in the store).
C37_Witness ==
    /\ lg.stage = "done"
    /\ lg.status = "Unauthorized"
    /\ IsSome(lg.found)
    /\ Unwrap(lg.found) \in Users
    /\ \E row \in accounts :
            /\ Federated(row)
            /\ Unwrap(lg.payload).username_or_email = row.email
            /\ row.password_hash = hash_password(<< >>, row.id)
    /\ \E row \in accounts :
            /\ ~Federated(row)
            /\ IsSome(redis_get(store, session_key(row.id), now))

\* ---------------------------------------------------------------------------
\* The callback for a profile whose email an account already has
\* ---------------------------------------------------------------------------

\* The profiles get_user_profile answers with: the provider's user under the
\* email the provider has for it, which the provider reports as verified
\* or not (GoogleUser.verified_email), and which may be the email of the
\* registered account.
Profiles ==
    [id : {"u1"}, email : {Registrant.email, profile_email("u1")},
     verified_email : BOOLEAN]

LinkNext ==
    \/ oauth_authorize("google")
    \/ \E state \in CsrfTokens :
            CallbackBegin("p1", [error |-> None, code |-> Some("code"),
                                 state |-> Some(state)])
    \/ CallbackDelete("p1")
    \/ \E profile \in Profiles : CallbackProfile("p1", Ok(profile))
    \/ CallbackProfile("p1", Err("profile"))
    \/ CallbackSession("p1")
    \/ RegisterBegin("p1", Registrant)
    \/ RegisterFindEmail("p1")
    \/ RegisterCreate("p1", TRUE)

SpecLink == Init /\ [][LinkNext]_vars

\* C38: the callback signs tokens for an account that already existed under
\* the profile's email only when the provider reported that email as
\* verified; with an unverified email an existing account gets no token and
\* no session.
C38_LinkOnlyVerifiedEmail ==
    \A p \in Procs :
        (cb[p].linked /\ cb[p].minted # << >>) =>
            Unwrap(cb[p].profile).verified_email

====
